---- MODULE Spec2Model ----
(***************************************************************************)
(* Verification model of aiida-jutools:                                    *)
(*   - aiida_jutools/util_kkr.py: KkrConstantsVersionChecker               *)
(*   - aiida_jutools/computer/options.py: _OptionsConfig and               *)
(*     ComputerOptionsManager                                              *)
(* The AiiDA store (groups, nodes, group membership) is explicit state.    *)
(***************************************************************************)
EXTENDS Integers, Sequences, FiniteSets, TLC

VARIABLES
    wcs,        \* the workchains of the store: uuid -> content
    df,         \* KkrConstantsVersionChecker._df: uuid -> row (or NoRow)
    wcExtra,    \* extra 'kkr_constants_version' of each workchain (or NoExtra)
    kkrLast,    \* record of the last check_single_workchain call
    store,      \* the AiiDA store: groups, nodes, group membership
    computers,  \* the computers of the AiiDA profile
    cfg,        \* the _OptionsConfig objects of the process, by name
    mgr,        \* the ComputerOptionsManager instance
    active,     \* the config the user works with directly
    nCreated,   \* number of records get_options has stored
    last        \* record of the last call on a config or on the manager

kkrVars == <<wcs, df, wcExtra, kkrLast>>
optVars == <<store, computers, cfg, mgr, active, nCreated, last>>
vars == <<wcs, df, wcExtra, kkrLast, store, computers, cfg, mgr, active, nCreated, last>>

(***************************************************************************)
(* Part 1. KkrConstantsVersionChecker (util_kkr.py)                        *)
(*                                                                         *)
(* Floating point: the three ANG_BOHR_KKR literals lie in [1, 2), where    *)
(* float64 values are the integer multiples of one ULP (2^-52).  Their bit *)
(* patterns are 4611189389043343822 (NEW), 4611189389045000334 (INTERIM)   *)
(* and 4611189389047091078 (OLD).  A value is modelled by its bit pattern  *)
(* minus 4611189389033343820 (a multiple of 4, so parities are kept);      *)
(* subtraction of two such values and abs() are exact in float64.          *)
(* The model value 0 stands for the float 0.0.                             *)
(***************************************************************************)
ANG_NEW == 10000002
ANG_INTERIM == 11656514
ANG_OLD == 13747258

\* KkrConstantsVersion, the enum (util_kkr.py 233-237)
KkrConstantsVersion == {"NEW", "OLD", "INTERIM", "NEITHER", "UNDECISIVE"}

\* self._ANG_BOHR_KKR: the keys in the insertion order of the dict literal
AngBohrKeys == <<"NEW", "INTERIM", "OLD">>

\* self._ANG_BOHR_KKR[ctype]
ANG_BOHR_KKR(ctype) ==
    CASE ctype = "NEW" -> ANG_NEW
      [] ctype = "INTERIM" -> ANG_INTERIM
      [] ctype = "OLD" -> ANG_OLD

Abs(x) == IF x < 0 THEN -x ELSE x

RECURSIVE SeqSum(_)
SeqSum(s) == IF s = <<>> THEN 0 ELSE Head(s) + SeqSum(Tail(s))

RECURSIVE SeqMin(_)
SeqMin(s) == IF Len(s) = 1 THEN s[1]
             ELSE LET m == SeqMin(Tail(s)) IN IF Head(s) <= m THEN Head(s) ELSE m

\* masci_tools math_util.drop_values(a, 'zero', 'nan'): the non-zero samples
DropValues(s) == SelectSeq(s, LAMBDA x : x # 0)

\* numpy.mean of one or two float64 values of [1, 2): the sum of two lies in
\* [2, 4), where the spacing is 2 ULP, and is rounded to nearest, ties to
\* even (a multiple of 4 ULP); halving is exact.
Mean(s) ==
    IF Len(s) = 1 THEN s[1]
    ELSE LET t == s[1] + s[2]
             r == IF t % 2 = 0 THEN t
                  ELSE IF (t + 1) % 4 = 0 THEN t + 1 ELSE t - 1
         IN r \div 2

\* step 4 of check_single_workchain: difference[ctype] = abs(ANG_BOHR_KKR - value),
\* in the iteration order of self.ANG_BOHR_KKR
Difference(a2b) == [i \in 1..Len(AngBohrKeys) |-> Abs(a2b - ANG_BOHR_KKR(AngBohrKeys[i]))]

\* indices = [i for i, val in enumerate(difference.values()) if val == min(...)]
MinIndices(d) == {i \in 1..Len(d) : d[i] = SeqMin(d)}

\* constants_version = list(difference.keys())[indices[0]]
ClassifyVersion(a2b) ==
    LET d == Difference(a2b)
        first == CHOOSE i \in MinIndices(d) : \A j \in MinIndices(d) : i <= j
    IN AngBohrKeys[first]

NoRow == [checked |-> FALSE]
NoExtra == [set |-> FALSE]

\* The per-element values ALATBASIS * x / y computed by
\* reverse_calc_single_ANG_BOHR_KKR (0 when x or y is 0.0)
SampleValues ==
    {0, ANG_NEW, ANG_INTERIM, ANG_OLD,
     (ANG_NEW + ANG_INTERIM) \div 2,          \* NEW and INTERIM equally close
     (ANG_INTERIM + ANG_OLD) \div 2,          \* INTERIM and OLD equally close
     (ANG_INTERIM + ANG_OLD) \div 2 + 1,
     (ANG_INTERIM + ANG_OLD) \div 2 - 1,
     (ANG_NEW + ANG_OLD) \div 2,
     2, 2 * ANG_NEW}

SampleLists ==
    {<<x>> : x \in SampleValues} \cup
    {<<x, y>> : x \in {0, ANG_INTERIM, ANG_INTERIM + 1}, y \in {0, ANG_OLD, ANG_OLD + 2}}

\* A workchain as check_single_workchain sees it.
\*   label      wc.attributes['process_label']
\*   startpot   it has a kkr_startpot_wc descendant
\*   voro       a startpot has a VoronoiCalculation descendant
\*   inputcard  the inputcard can be retrieved
\*   nAlat      number of inputcard lines holding 'ALATBASIS'
\*   shapeB/P   BRAVAIS / <RBASIS> matrix has the shape of the structure's one
\*   samples    the per-element reverse-calculated values, BRAVAIS then RBASIS
GoodWc(s) == [label |-> "kkr_scf_wc", startpot |-> TRUE, voro |-> TRUE, inputcard |-> TRUE,
              nAlat |-> 1, shapeB |-> TRUE, shapeP |-> TRUE, samples |-> s]

WorkchainContents ==
    {GoodWc(s) : s \in SampleLists} \cup
    {[GoodWc(<<ANG_NEW>>) EXCEPT !.label = "other"],
     [GoodWc(<<ANG_NEW>>) EXCEPT !.startpot = FALSE],
     [GoodWc(<<ANG_NEW>>) EXCEPT !.voro = FALSE],
     [GoodWc(<<ANG_NEW>>) EXCEPT !.inputcard = FALSE],
     [GoodWc(<<ANG_NEW>>) EXCEPT !.nAlat = 0],
     [GoodWc(<<ANG_NEW>>) EXCEPT !.nAlat = 2],
     [GoodWc(<<ANG_NEW>>) EXCEPT !.shapeB = FALSE],
     [GoodWc(<<ANG_NEW>>) EXCEPT !.shapeP = FALSE]}

MaxWc == 2
WcIds == 1..MaxWc

\* CheckOutcome raising where lines 517, 527, 543 and 570 return
CheckOutcomeStrict(w) ==
    IF w.label \notin {"kkr_scf_wc", "kkr_imp_wc"} THEN "raise"
    ELSE IF ~w.startpot \/ ~w.voro \/ ~w.inputcard \/ w.nAlat # 1 THEN "raise"
    ELSE IF ~w.shapeB \/ ~w.shapeP THEN "raise"
    ELSE IF DropValues(w.samples) = <<>> THEN "raise"
    ELSE "row"

\* What one call of check_single_workchain does with workchain content w:
\* "skip" (return before any result), "raise", or "row".
CheckOutcome(w) ==
    IF w.label \notin {"kkr_scf_wc", "kkr_imp_wc"} THEN "raise"   \* query_structure_from
    ELSE IF ~w.startpot THEN "skip"
    ELSE IF ~w.voro THEN "skip"
    ELSE IF ~w.inputcard THEN "skip"
    ELSE IF w.nAlat # 1 THEN "skip"
    ELSE IF ~w.shapeB \/ ~w.shapeP THEN "raise"    \* a2b_list.extend(None): TypeError
    ELSE IF DropValues(w.samples) = <<>> THEN "raise"  \* mean of nothing is NaN: indices[0]
    ELSE "row"

\* the checker as constructed: an empty DataFrame
KkrIdle ==
    /\ df = [u \in WcIds |-> NoRow]
    /\ wcExtra = [u \in WcIds |-> NoExtra]
    /\ kkrLast = [op |-> "none"]

\* the row and the extra of a classified workchain (steps 4 and 5)
RowOf(a2b) ==
    [checked |-> TRUE, ANG_BOHR_KKR |-> a2b, constants_version |-> ClassifyVersion(a2b),
     diff_new |-> Difference(a2b)[1], diff_interim |-> Difference(a2b)[2],
     diff_old |-> Difference(a2b)[3]]

ExtraOf(cv) == [set |-> TRUE, constants_version |-> cv, ANG_BOHR_KKR |-> ANG_BOHR_KKR(cv)]

\* check_single_workchain on the DataFrame d and the extras e, for the
\* workchain u with content w: the DataFrame and extras afterwards and how
\* the call ended ("already", "skip", "raise" or "row")
CheckedSingleWorkchain(d, e, w, u, set_extra) ==
    IF d[u].checked THEN [df |-> d, wcExtra |-> e, outcome |-> "already"]
    ELSE IF CheckOutcome(w) # "row" THEN [df |-> d, wcExtra |-> e, outcome |-> CheckOutcome(w)]
    ELSE [df |-> [d EXCEPT ![u] = RowOf(Mean(DropValues(w.samples)))],
          wcExtra |-> IF set_extra
                      THEN [e EXCEPT ![u] =
                              ExtraOf(ClassifyVersion(Mean(DropValues(w.samples))))]
                      ELSE e,
          outcome |-> "row"]

\* KkrConstantsVersionChecker.check_single_workchain(wc, set_extra)
CheckSingleWorkchain(u, set_extra) ==
    LET r == CheckedSingleWorkchain(df, wcExtra, wcs[u], u, set_extra)
    IN /\ df' = r.df
       /\ wcExtra' = r.wcExtra
       /\ kkrLast' = [op |-> "check", wc |-> u, outcome |-> r.outcome]
       /\ UNCHANGED wcs
       /\ UNCHANGED optVars

\* check_workchain_group: the loop over group.nodes (the workchains in the
\* order of their ids), from node u on.  An exception of
\* check_single_workchain is not caught: the loop ends with it, at wc.
RECURSIVE CheckedGroupFrom(_, _, _, _, _, _)
CheckedGroupNext(w, u, process_labels, set_extra, r) ==
    IF r.outcome = "raise"
    THEN [df |-> r.df, wcExtra |-> r.wcExtra, outcome |-> "raise", wc |-> u]
    ELSE CheckedGroupFrom(r.df, r.wcExtra, w, u + 1, process_labels, set_extra)

CheckedGroupFrom(d, e, w, u, process_labels, set_extra) ==
    IF u > Len(w) THEN [df |-> d, wcExtra |-> e, outcome |-> "done", wc |-> 0]
    ELSE IF w[u].label \notin process_labels
    THEN CheckedGroupFrom(d, e, w, u + 1, process_labels, set_extra)
    ELSE CheckedGroupNext(w, u, process_labels, set_extra,
                          CheckedSingleWorkchain(d, e, w[u], u, set_extra))

\* check_workchain_group(group, process_labels, set_extra) on the DataFrame d
\* and the extras e, the group holding the workchains w
CheckedWorkchainGroup(d, e, w, process_labels, set_extra) ==
    IF process_labels = {} THEN [df |-> d, wcExtra |-> e, outcome |-> "nothing", wc |-> 0]
    ELSE CheckedGroupFrom(d, e, w, 1, process_labels, set_extra)

\* KkrConstantsVersionChecker.check_workchain_group(group, process_labels, set_extra)
CheckWorkchainGroup(process_labels, set_extra) ==
    LET r == CheckedWorkchainGroup(df, wcExtra, wcs, process_labels, set_extra)
    IN /\ df' = r.df
       /\ wcExtra' = r.wcExtra
       /\ kkrLast' = [op |-> "check_group", wc |-> r.wc, outcome |-> r.outcome]
       /\ UNCHANGED wcs
       /\ UNCHANGED optVars

\* KkrConstantsVersionChecker.clear()
Clear ==
    /\ \E u \in WcIds : df[u].checked
    /\ df' = [u \in WcIds |-> NoRow]
    /\ kkrLast' = [op |-> "clear"]
    /\ UNCHANGED <<wcs, wcExtra>>
    /\ UNCHANGED optVars

(***************************************************************************)
(* Part 2. The AiiDA store and option records (computer/options.py)        *)
(*                                                                         *)
(* An option record (the attributes of a Dict node) has the fields         *)
(*   withmpi   "True", "False" or "absent"                                 *)
(*   queue_name   a string, "" when absent                                 *)
(*   csc       custom_scheduler_commands: a text, or Absent                *)
(*   mws       max_wallclock_seconds, 0 when absent                        *)
(*   res       resources: num_machines (nm), tot_num_mpiprocs (tot),       *)
(*             num_mpiprocs_per_machine (per), 0 for an absent sub-field   *)
(*   mep       mpirun_extra_params (a list), or Absent                     *)
(*   env       environment_variables (a dict), or AbsentDict               *)
(* A text is a sequence of tokens; an account is a sequence of characters. *)
(* A dict is a set of <<key, type, value>>, type "scalar" or "list".       *)
(***************************************************************************)
Absent == <<"<absent>">>
AbsentDict == {<<"<absent>", "", "">>}
NoRes == [present |-> FALSE, nm |-> 0, tot |-> 0, per |-> 0]
Res(nm, tot, per) == [present |-> TRUE, nm |-> nm, tot |-> tot, per |-> per]

\* Python truthiness of attributes.get("resources", None): a non-empty dict
ResTruthy(r) == r.present /\ (r.nm # 0 \/ r.tot # 0 \/ r.per # 0)

Attr(withmpi, queue_name, csc, mws, res) ==
    [withmpi |-> withmpi, queue_name |-> queue_name, csc |-> csc, mws |-> mws,
     res |-> res, mep |-> Absent, env |-> AbsentDict]

OneHour == 3600
OneDay == 86400

\* ComputerOptionsManager: the default configs (options.py 899-993)
ConfigNames == <<"localhost", "iffslurm", "claix18", "claix16">>
\* a config a user sets up for add_config: account-based, 'account' mandatory
CustomName == "custom"
AllConfigNames == {ConfigNames[i] : i \in 1..Len(ConfigNames)} \cup {CustomName}

DefaultGroups(name) ==
    CASE name = "localhost" -> <<"computer_options/localhost">>
      [] name = "iffslurm" -> <<"computer_options/iffslurm", "iffslurm_options">>
      [] name = "claix18" -> <<"computer_options/claix18">>
      [] name = "claix16" -> <<"computer_options/claix16">>
      [] name = CustomName -> <<"computer_options/custom">>

DefaultOptions(name) ==
    CASE name = "localhost" ->
            << Attr("False", "", Absent, OneHour, Res(1, 1, 0)),
               Attr("False", "", Absent, OneHour, Res(1, 4, 0)) >>
      [] name = "iffslurm" ->
            << Attr("True", "oscar", Absent, OneDay, Res(1, 12, 0)),
               Attr("False", "oscar", Absent, OneDay, Res(1, 1, 0)),
               Attr("True", "th1", Absent, OneDay, Res(1, 12, 0)),
               Attr("False", "th1", Absent, OneDay, Res(1, 1, 0)),
               Attr("True", "th1-2020-32", Absent, OneDay, Res(1, 32, 0)),
               Attr("False", "th1-2020-32", Absent, OneDay, Res(1, 1, 0)),
               Attr("True", "th1-2020-64", Absent, OneDay, Res(1, 64, 0)),
               Attr("True", "viti", Absent, OneDay, Res(1, 20, 0)) >>
      [] name = "claix18" -> << Attr("True", "", <<>>, OneDay, Res(1, 48, 0)) >>
      [] name = "claix16" -> << Attr("True", "", <<>>, OneDay, Res(1, 24, 0)) >>
      [] name = CustomName -> << Attr("True", "", <<>>, OneDay, Res(1, 8, 0)) >>

\* _OptionsQueryConfig.mandatory of each default config
Mandatory(name) == IF name = "iffslurm" THEN <<"queue_name">>
                   ELSE IF name = CustomName THEN <<"account">> ELSE <<>>

\* _jobresource_cls: the base JobResource defines no valid keys
JobResourceKeys(name) == IF name = "localhost" THEN {} ELSE {"num_machines", "tot_num_mpiprocs"}

\* _OptionsDefaultCreationValues.conditional["withmpi"][...]["resources"]
CondResourcesFalse == Res(1, 1, 0)
CondResourcesTrue == Res(1, 0, 0)
\* _OptionsDefaultCreationValues.unconditional
UnconditionalMws == OneDay

\* A config object as constructed (__post_init__): unstored groups and options
NewConfig(name) ==
    [name |-> name,
     is_initialized |-> FALSE,
     groups |-> [i \in 1..Len(DefaultGroups(name)) |->
                    [label |-> DefaultGroups(name)[i], is_stored |-> FALSE]],
     options |-> [i \in 1..Len(DefaultOptions(name)) |->
                    [pk |-> 0, attrs |-> DefaultOptions(name)[i]]],
     condTrue |-> CondResourcesTrue,
     condFalse |-> CondResourcesFalse,
     computers |-> <<>>]

(* The store: stored group labels, nodes by pk, group membership.          *)
EmptyStore == [groups |-> {}, nodes |-> <<>>, members |-> {}]

DictNode(attrs) == [kind |-> "Dict", alive |-> TRUE, attrs |-> attrs]
OtherNode == [kind |-> "Other", alive |-> TRUE, attrs |-> Attr("absent", "", Absent, 0, NoRes)]

Pks(st) == {pk \in 1..Len(st.nodes) : st.nodes[pk].alive}

\* node.store(): the new node gets the next pk
StoreNode(st, node) == [st EXCEPT !.nodes = Append(st.nodes, node)]

\* group.add_nodes([node]) for each of the groups labelled in labels
AddToGroups(st, labels, pk) ==
    [st EXCEPT !.members = st.members \cup {<<l, pk>> : l \in labels}]

\* the stored Dict nodes of the group labelled l, as list(group.nodes) filtered
GroupDicts(st, l) ==
    {pk \in Pks(st) : <<l, pk>> \in st.members /\ st.nodes[pk].kind = "Dict"}

Labels(groups) == {groups[i].label : i \in 1..Len(groups)}

RECURSIVE SetToSeq(_)
SetToSeq(S) == IF S = {} THEN <<>>
               ELSE LET m == CHOOSE x \in S : \A y \in S : x <= y
                    IN <<m>> \o SetToSeq(S \ {m})

\* _OptionsConfig._update_options: all distinct Dicts of the config's groups
UpdateOptions(st, cf) ==
    IF cf.is_initialized
    THEN LET pks == UNION {GroupDicts(st, l) : l \in Labels(cf.groups)}
             s == SetToSeq(pks)
         IN [cf EXCEPT !.options = [i \in 1..Len(s) |-> [pk |-> s[i], attrs |-> st.nodes[s[i]].attrs]]]
    ELSE cf

(***************************************************************************)
(* _OptionsConfig.initialize(alternative_group_names)                      *)
(***************************************************************************)
AnyStored(groups) == \E i \in 1..Len(groups) : groups[i].is_stored
KeepStored(groups) == SelectSeq(groups, LAMBDA g : g.is_stored)

AltGroups(alt) == [i \in 1..Len(alt) |-> [label |-> alt[i], is_stored |-> FALSE]]

\* lines 258-263: groups that exist in the store are loaded
LoadGroups(st, groups) ==
    [i \in 1..Len(groups) |-> [label |-> groups[i].label,
                               is_stored |-> groups[i].label \in st.groups]]

\* lines 266-271: no default group loaded but an alternative one: drop the defaults
DropDefaults(groups, n0) ==
    IF ~AnyStored(SubSeq(groups, 1, n0)) /\ AnyStored(SubSeq(groups, n0 + 1, Len(groups)))
    THEN SubSeq(groups, n0 + 1, Len(groups)) ELSE groups

\* lines 274-285: the loaded groups if any, else the primary group, stored
LoadedOrPrimary(groups) ==
    IF AnyStored(groups) THEN KeepStored(groups)
    ELSE << [label |-> groups[1].label, is_stored |-> TRUE] >>

\* a mutation of ResolveGroups: unstored temporary groups are kept in the list
ResolveGroupsKeepUnstored(st, cf, alt) == LoadGroups(st, cf.groups \o AltGroups(alt))

\* Step 1 of initialize, lines 246-285: the final group list
ResolveGroups(st, cf, alt) ==
    LoadedOrPrimary(DropDefaults(LoadGroups(st, cf.groups \o AltGroups(alt)), Len(cf.groups)))

\* a mutation of FindStoredOption: nothing is ever found in the store
FindStoredOptionNever(st, groups, attrs) == 0

\* lines 296-310: the stored option that replaces default option attrs, 0 if none:
\* the first group, in list order, holding an attribute-equal stored Dict
RECURSIVE FindStoredOption(_, _, _)
FindStoredOption(st, groups, attrs) ==
    IF groups = <<>> THEN 0
    ELSE LET eq == {pk \in GroupDicts(st, Head(groups).label) : st.nodes[pk].attrs = attrs}
         IN IF eq # {} THEN CHOOSE pk \in eq : \A q \in eq : pk <= q
            ELSE FindStoredOption(st, Tail(groups), attrs)

\* lines 316-320: store each unstored option and add it to all groups
RECURSIVE StoreRemaining(_, _, _, _)
StoreRemaining(st, groups, options, i) ==
    IF i > Len(options) THEN [st |-> st, options |-> options]
    ELSE IF options[i].pk # 0 THEN StoreRemaining(st, groups, options, i + 1)
    ELSE LET st1 == StoreNode(st, DictNode(options[i].attrs))
             pk == Len(st1.nodes)
             st2 == AddToGroups(st1, Labels(groups), pk)
         IN StoreRemaining(st2, groups, [options EXCEPT ![i].pk = pk], i + 1)

\* lines 296-310: each default option is replaced by the stored one, if found
ReplaceOptions(st, groups, options) ==
    [i \in 1..Len(options) |->
        IF FindStoredOption(st, groups, options[i].attrs) # 0
        THEN [pk |-> FindStoredOption(st, groups, options[i].attrs),
              attrs |-> options[i].attrs]
        ELSE options[i]]

StoreGroups(st, groups) == [st EXCEPT !.groups = st.groups \cup Labels(groups)]

\* r: the result of StoreRemaining
Initialized(cf, groups, r) ==
    [st |-> r.st,
     cf |-> [cf EXCEPT !.is_initialized = TRUE, !.groups = groups, !.options = r.options]]

\* Step 2 of initialize, lines 296-323; groups: the final group list, all stored
InitializeOptions(st, cf, groups) ==
    Initialized(cf, groups, StoreRemaining(st, groups, ReplaceOptions(st, groups, cf.options), 1))

InitializeGroups(st, cf, groups) == InitializeOptions(StoreGroups(st, groups), cf, groups)

\* initialize: the store and the config after the call
Initialize(st, cf, alt) ==
    IF cf.is_initialized THEN [st |-> st, cf |-> cf]
    ELSE InitializeGroups(st, cf, ResolveGroups(st, cf, alt))

(***************************************************************************)
(* Computers of the profile, and the helpers of aiida_jutools.computer     *)
(***************************************************************************)
\* a computer: its name, the queues get_queues reports for it (least occupied
\* first), whether get_queues is implemented for its type, and
\* get_default_mpiprocs_per_machine() (0 for None)
Computer(name, queues, implemented, mpiprocs) ==
    [name |-> name, queues |-> queues, implemented |-> implemented, mpiprocs |-> mpiprocs]

ComputerProfiles ==
    { <<>>,
      << Computer("iffslurm", <<"th1", "oscar", "th1-2020-64">>, TRUE, 4),
         Computer("localhost", <<>>, FALSE, 2),
         Computer("claix", <<"c18m">>, TRUE, 0) >>,
      << Computer("iffslurm", <<>>, TRUE, 0) >> }

\* re.findall("[a-zA-Z]+", self.name): the words of a config name
ConfWords(name) == IF name \in {"claix18", "claix16"} THEN <<"claix">> ELSE <<name>>

\* aiida_jutools.computer.get_computers(computer_name_pattern): the computers of
\* the profile whose name matches the pattern, as indices into the profile
GetComputers(env, pattern) ==
    SelectSeq([i \in 1..Len(env) |-> i], LAMBDA i : env[i].name = pattern)

\* the property _OptionsConfig.computers
ConfigComputers(cf, env) ==
    IF cf.computers # <<>> THEN cf.computers ELSE GetComputers(env, cf.name)

\* get_help('keywords') as get_options uses it: it raises (TypeError, line 806:
\* set + set) when neither the job resource class nor a computer yields keys
GetHelpRaises(cf, env) == JobResourceKeys(cf.name) = {} /\ ConfigComputers(cf, env) = <<>>

(***************************************************************************)
(* get_options: arguments                                                  *)
(*   store     store_if_not_exist                                          *)
(*   withmpi, queue_name ("" for None), account (<<>> for None)            *)
(*   kw        the keyword options: mws (0: not given), csc, mep, env as   *)
(*             in a record; res: given "no", "dict" or "nondict" with the  *)
(*             sub-fields nm, tot, per of a dict; bogus: an invalid keyword*)
(***************************************************************************)
NoKw == [mws |-> 0, csc |-> Absent, mep |-> Absent, env |-> AbsentDict,
         res |-> [given |-> "no", nm |-> 0, tot |-> 0, per |-> 0], bogus |-> FALSE]

Args(store_if_not_exist, withmpi, queue_name, account, kw) ==
    [store |-> store_if_not_exist, withmpi |-> withmpi, queue_name |-> queue_name,
     account |-> account, kw |-> kw]

\* lines 388-401: the valid keyword options
ValidKwargs(kw) ==
    [kw EXCEPT !.bogus = FALSE,
               !.res = IF kw.res.given = "nondict" THEN NoKw.res ELSE kw.res]

\* lower-casing of a character, as ilike compares
Lower(ch) == IF ch = "P" THEN "p" ELSE IF ch = "X" THEN "x" ELSE ch
LowerText(t) == [i \in 1..Len(t) |-> Lower(t[i])]

\* text ilike %pattern%: pattern occurs in text, case-insensitively
ILikeContains(text, pattern) ==
    \E k \in 0..(Len(text) - Len(pattern)) :
        SubSeq(LowerText(text), k + 1, k + Len(pattern)) = LowerText(pattern)

AccountFlag(account) == <<"--account=">> \o account

\* lines 409-489, mandatory key "queue_name": scan the config's own computers
\* until one reports queues; those for which get_queues is not implemented
\* are removed from the config
RECURSIVE ScanAssigned(_, _, _, _)
ScanAssigned(env, comps, i, removed) ==
    IF i > Len(comps) THEN [queues |-> <<>>, removed |-> removed]
    ELSE IF ~env[comps[i]].implemented THEN ScanAssigned(env, comps, i + 1, removed \cup {i})
    ELSE IF env[comps[i]].queues # <<>> THEN [queues |-> env[comps[i]].queues, removed |-> removed]
    ELSE ScanAssigned(env, comps, i + 1, removed)

\* lines 458-467: scan the queried computers; "raise" when get_queues raises
RECURSIVE ScanQueried(_, _, _)
ScanQueried(env, found, i) ==
    IF i > Len(found) THEN [raised |-> FALSE, queues |-> <<>>, computer |-> 0]
    ELSE IF ~env[found[i]].implemented THEN [raised |-> TRUE, queues |-> <<>>, computer |-> 0]
    ELSE IF env[found[i]].queues # <<>>
         THEN [raised |-> FALSE, queues |-> env[found[i]].queues, computer |-> found[i]]
    ELSE ScanQueried(env, found, i + 1)

RECURSIVE FirstByWords(_, _, _)
FirstByWords(env, words, i) ==
    IF i > Len(words) THEN <<>>
    ELSE IF GetComputers(env, words[i]) # <<>> THEN GetComputers(env, words[i])
    ELSE FirstByWords(env, words, i + 1)

IsIn(x, seq) == \E i \in 1..Len(seq) : seq[i] = x

\* CheckQueueName without the membership test of lines 476-479
CheckQueueNameAny(q, comps, queue_name) ==
    IF q.raised \/ q.queues = <<>>
    THEN [raised |-> TRUE, queue_name |-> queue_name, computers |-> comps]
    ELSE IF queue_name # ""
    THEN [raised |-> FALSE, queue_name |-> queue_name, computers |-> comps]
    ELSE [raised |-> FALSE, queue_name |-> q.queues[1], computers |-> comps]

\* lines 468-483; q: the queues found, comps: the config's computers by now
CheckQueueName(q, comps, queue_name) ==
    IF q.raised \/ q.queues = <<>>
    THEN [raised |-> TRUE, queue_name |-> queue_name, computers |-> comps]
    ELSE IF queue_name # ""
    THEN [raised |-> ~IsIn(queue_name, q.queues), queue_name |-> queue_name, computers |-> comps]
    ELSE [raised |-> FALSE, queue_name |-> q.queues[1], computers |-> comps]

\* lines 439-467; found: the computers get_computers returned
QueryComputers(env, comps, found, queue_name) ==
    IF found = <<>>
    THEN [raised |-> TRUE, queue_name |-> queue_name, computers |-> comps]
    ELSE IF ScanQueried(env, found, 1).computer # 0
    THEN CheckQueueName(ScanQueried(env, found, 1),
                        Append(comps, ScanQueried(env, found, 1).computer), queue_name)
    ELSE CheckQueueName(ScanQueried(env, found, 1), comps, queue_name)

DropIndices(seq, removed) ==
    LET kept == SelectSeq([i \in 1..Len(seq) |-> i], LAMBDA i : i \notin removed)
    IN [i \in 1..Len(kept) |-> seq[kept[i]]]

\* lines 437-467; a: the result of ScanAssigned
AfterAssigned(cf, env, a, queue_name) ==
    IF a.queues # <<>>
    THEN CheckQueueName([raised |-> FALSE, queues |-> a.queues],
                        DropIndices(cf.computers, a.removed), queue_name)
    ELSE QueryComputers(env, DropIndices(cf.computers, a.removed),
                        IF GetComputers(env, cf.name) # <<>> THEN GetComputers(env, cf.name)
                        ELSE FirstByWords(env, ConfWords(cf.name), 1),
                        queue_name)

\* the whole mandatory-key "queue_name" block: the queue name to use, the
\* config's computer list afterwards, and whether an exception was raised
MandatoryQueueName(cf, env, queue_name) ==
    AfterAssigned(cf, env, ScanAssigned(env, cf.computers, 1, {}), queue_name)

\* m: the result of MandatoryQueueName
RECURSIVE HandleMandatory(_, _, _, _, _)
AfterQueueName(cf, env, keys, account, m) ==
    IF m.raised THEN m
    ELSE HandleMandatory([cf EXCEPT !.computers = m.computers], env, keys, m.queue_name, account)

\* lines 409-489: all mandatory keys, in order
HandleMandatory(cf, env, keys, queue_name, account) ==
    IF keys = <<>> THEN [raised |-> FALSE, queue_name |-> queue_name, computers |-> cf.computers]
    ELSE IF Head(keys) = "queue_name"
    THEN AfterQueueName(cf, env, Tail(keys), account, MandatoryQueueName(cf, env, queue_name))
    ELSE IF Head(keys) = "account" /\ account = <<>>
    THEN [raised |-> TRUE, queue_name |-> queue_name, computers |-> cf.computers]
    ELSE HandleMandatory(cf, env, Tail(keys), queue_name, account)

\* lines 503-537: the filters of the query on a node's attributes a
QueryMatches(a, withmpi, queue_name, account, kw) ==
    /\ queue_name # "" => a.queue_name = queue_name
    /\ account # <<>> => (a.csc # Absent /\ ILikeContains(a.csc, AccountFlag(account)))
    /\ withmpi => a.withmpi = "True"
    /\ kw.mws # 0 => a.mws = kw.mws
    /\ kw.csc # Absent => a.csc = kw.csc
    \* a list value (mep) is ignored
    /\ kw.env # AbsentDict =>
          \A e \in kw.env : e[2] = "scalar" => (a.env # AbsentDict /\ e \in a.env)
    /\ kw.res.given = "dict" =>
          /\ kw.res.nm # 0 => (a.res.present /\ a.res.nm = kw.res.nm)
          /\ kw.res.tot # 0 => (a.res.present /\ a.res.tot = kw.res.tot)
          /\ kw.res.per # 0 => (a.res.present /\ a.res.per = kw.res.per)

\* lines 499-540: the pks the query returns
QueryOptions(st, cf, withmpi, queue_name, account, kw) ==
    {pk \in UNION {GroupDicts(st, l) : l \in Labels(cf.groups)} :
        QueryMatches(st.nodes[pk].attrs, withmpi, queue_name, account, kw)}

(***************************************************************************)
(* get_options: creation of a record (lines 544-692)                       *)
(***************************************************************************)
SetMax(S) == CHOOSE x \in S : \A y \in S : y <= x
SetMin(S) == CHOOSE x \in S : \A y \in S : x <= y

\* lines 617-636: the maxima over the options of the same queue (0 for None)
QueueMaxima(opts, queue_name) ==
    LET qo == {i \in 1..Len(opts) : opts[i].attrs.queue_name = queue_name}
        ok == {i \in qo : opts[i].attrs.withmpi = "True" /\ ResTruthy(opts[i].attrs.res)}
        tots == {opts[i].attrs.res.tot : i \in {j \in ok : opts[j].attrs.res.tot # 0}}
        pers == {opts[i].attrs.res.per : i \in {j \in ok : opts[j].attrs.res.per # 0}}
    IN IF queue_name = "" \/ qo = {} THEN [tot |-> 0, per |-> 0]
       ELSE [tot |-> IF tots # {} THEN SetMax(tots) ELSE 0,
             per |-> IF pers # {} THEN SetMax(pers) ELSE 0]

\* lines 640-653: the minima over all options with withmpi, else 1.  A node
\* without resources or without tot_num_mpiprocs raises KeyError before its
\* num_mpiprocs_per_machine is read.
GlobalMinima(opts) ==
    LET ok == {i \in 1..Len(opts) : opts[i].attrs.withmpi = "True" /\
                   opts[i].attrs.res.present /\ opts[i].attrs.res.tot # 0}
        tots == {opts[i].attrs.res.tot : i \in ok}
        pers == {opts[i].attrs.res.per : i \in {j \in ok : opts[j].attrs.res.per # 0}}
    IN [tot |-> IF tots # {} THEN SetMin(tots) ELSE 1,
        per |-> IF pers # {} THEN SetMin(pers) ELSE 1]

\* lines 605-668: the resources default 'value' for withmpi=True after the
\* determination of the MPI process count; value is left alone when it
\* already holds a count
DetermineMpi(value, opts, queue_name, env, comps) ==
    IF value.tot # 0 \/ value.per # 0 THEN value
    ELSE LET q == QueueMaxima(opts, queue_name)
             g == IF q.tot = 0 /\ q.per = 0 THEN GlobalMinima(opts) ELSE q
             c == IF g.tot = 0 /\ g.per = 0 /\ comps # <<>>
                  THEN [tot |-> 0, per |-> env[comps[1]].mpiprocs] ELSE g
         IN IF c.tot > 1 THEN [value EXCEPT !.tot = c.tot]
            ELSE IF c.per > 1 THEN [value EXCEPT !.per = c.per]
            ELSE [value EXCEPT !.tot = c.tot]

\* lines 674-680 for the keyword 'resources': sub-fields are merged into the
\* (non-empty) default
MergeRes(value, kwres) ==
    IF kwres.given # "dict" THEN value
    ELSE IF ~ResTruthy(value)
    THEN [present |-> TRUE, nm |-> kwres.nm, tot |-> kwres.tot, per |-> kwres.per]
    ELSE [value EXCEPT !.nm = IF kwres.nm # 0 THEN kwres.nm ELSE @,
                       !.tot = IF kwres.tot # 0 THEN kwres.tot ELSE @,
                       !.per = IF kwres.per # 0 THEN kwres.per ELSE @]

\* lines 550-680: the attributes of the created record, and the conditional
\* default 'resources' dict of the case withmpi afterwards: opt_dict aliases
\* it, so the determination and the merge of the keyword write into it
CreateOptions(cf, opts, env, withmpi, queue_name, account, kw) ==
    LET value0 == IF withmpi THEN cf.condTrue ELSE cf.condFalse
        value1 == IF withmpi
                  THEN DetermineMpi(value0, opts, queue_name, env, ConfigComputers(cf, env))
                  ELSE value0
        value2 == MergeRes(value1, kw.res)
        csc0 == IF account # <<>> THEN <<"#SBATCH", " ">> \o AccountFlag(account) ELSE Absent
    IN [attrs |-> [withmpi |-> IF withmpi THEN "True" ELSE "absent",
                   queue_name |-> queue_name,
                   csc |-> IF kw.csc # Absent THEN kw.csc ELSE csc0,
                   mws |-> IF kw.mws # 0 THEN kw.mws ELSE UnconditionalMws,
                   res |-> value2,
                   mep |-> kw.mep,
                   env |-> kw.env],
        cond |-> IF ResTruthy(value1) THEN value2 ELSE value1]

\* a mutation of ValidResult: records without 'resources' stay in the result
ValidResultAll(res) == res

\* lines 694-722: the result without the records lacking 'resources'; the
\* empty list when any record lacks it
ValidResult(res) ==
    IF \E r \in res : ~ResTruthy(r.attrs.res) THEN {} ELSE res

\* a mutation of CheckIfInitialized: the check always passes
CheckIfInitializedAlways(cf) == TRUE

\* _OptionsConfig._check_if_initalized
CheckIfInitialized(cf) == cf.is_initialized

\* a mutation of StoreIfNotExist: the created record is never stored
StoreIfNotExistNever(flag) == FALSE

\* line 685: if store_if_not_exist
StoreIfNotExist(flag) == flag

(***************************************************************************)
(* _OptionsConfig.get_options(store_if_not_exist, withmpi, queue_name,     *)
(* account, **kwargs), with as_Dict, silent, computer_name and gpu at      *)
(* their defaults.  The result: outcome "uninitialized", "raised" or       *)
(* "returned"; res, the returned records (pk 0: an unstored record);       *)
(* loaded, whether the query found records; created, the record made when  *)
(* it did not; and the store and the config afterwards.                    *)
(***************************************************************************)
NoItem == [pk |-> 0, attrs |-> Attr("absent", "", Absent, 0, NoRes)]

Result(outcome, res, loaded, created, st, cf) ==
    [outcome |-> outcome, res |-> res, loaded |-> loaded, created |-> created,
     st |-> st, cf |-> cf]

\* lines 682-692: the created attributes become a Dict node, stored and added
\* to all groups of the config if store_if_not_exist
StoreCreated(st, cf, a, attrs) ==
    IF StoreIfNotExist(a.store)
    THEN Result("returned", ValidResult({[pk |-> Len(st.nodes) + 1, attrs |-> attrs]}), FALSE,
                [pk |-> Len(st.nodes) + 1, attrs |-> attrs],
                AddToGroups(StoreNode(st, DictNode(attrs)), Labels(cf.groups), Len(st.nodes) + 1),
                cf)
    ELSE Result("returned", ValidResult({[pk |-> 0, attrs |-> attrs]}), FALSE,
                [pk |-> 0, attrs |-> attrs], st, cf)

\* c: the result of CreateOptions; its cond is written back into the defaults
Created(st, cf, a, c) ==
    StoreCreated(st,
                 IF a.withmpi THEN [cf EXCEPT !.condTrue = c.cond]
                 ELSE [cf EXCEPT !.condFalse = c.cond],
                 a, c.attrs)

\* lines 544-692; cf: the config after self.options was read where it is read
Create(st, cf, env, a, kw, queue_name) ==
    Created(st, cf, a, CreateOptions(cf, cf.options, env, a.withmpi, queue_name, a.account, kw))

\* self.options is read (and so refreshed) only where the count is determined
ReadsOptions(cf, a) == a.withmpi /\ cf.condTrue.tot = 0 /\ cf.condTrue.per = 0

\* lines 540-544: found, the pks the query returned
LoadOrCreate(st, cf, env, a, kw, queue_name, found) ==
    IF found # {}
    THEN Result("returned",
                ValidResult({[pk |-> pk, attrs |-> st.nodes[pk].attrs] : pk \in found}),
                TRUE, NoItem, st, cf)
    ELSE Create(st, IF ReadsOptions(cf, a) THEN UpdateOptions(st, cf) ELSE cf,
                env, a, kw, queue_name)

\* lines 495-540; cf: the config after the mandatory keys were handled
Query(st, cf, env, a, kw, queue_name) ==
    LoadOrCreate(st, cf, env, a, kw, queue_name,
                 QueryOptions(st, cf, a.withmpi, queue_name, a.account, kw))

\* m: the result of HandleMandatory
AfterMandatory(st, cf, env, a, kw, m) ==
    IF m.raised
    THEN Result("raised", {}, FALSE, NoItem, st, [cf EXCEPT !.computers = m.computers])
    ELSE Query(st, [cf EXCEPT !.computers = m.computers], env, a, kw, m.queue_name)

GetOptions(st, cf, env, a) ==
    IF ~CheckIfInitialized(cf) THEN Result("uninitialized", {}, FALSE, NoItem, st, cf)
    ELSE IF GetHelpRaises(cf, env) THEN Result("raised", {}, FALSE, NoItem, st, cf)
    ELSE AfterMandatory(st, cf, env, a, ValidKwargs(a.kw),
                        HandleMandatory(cf, env, Mandatory(cf.name), a.queue_name, a.account))

(***************************************************************************)
(* _OptionsConfig.delete_options(options_nodes, dry_run)                   *)
(* options_nodes: a list of node handles, a pk of the store or 0 for an    *)
(* unstored Dict.                                                          *)
(***************************************************************************)
\* aiida.tools.delete_nodes(pks, dry_run, force=True): the nodes are removed
\* from the store and from every group
DeleteNodes(st, pks, dry_run) ==
    IF dry_run THEN st
    ELSE [st EXCEPT !.nodes = [pk \in 1..Len(st.nodes) |->
                                  IF pk \in pks THEN [st.nodes[pk] EXCEPT !.alive = FALSE]
                                  ELSE st.nodes[pk]],
                    !.members = {m \in st.members : m[2] \notin pks}]

\* DeleteOptions without the two safety checks of lines 836-842
DeleteOptionsNoAbort(st, cf, nodes, dry_run) ==
    IF ~CheckIfInitialized(cf) THEN [outcome |-> "uninitialized", st |-> st, cf |-> cf]
    ELSE [outcome |-> "deleted",
          st |-> DeleteNodes(st, {nodes[i] : i \in 1..Len(nodes)}, dry_run),
          cf |-> UpdateOptions(st, cf)]

DeleteOptions(st, cf, nodes, dry_run) ==
    LET handles == {nodes[i] : i \in 1..Len(nodes)}
    IN IF ~CheckIfInitialized(cf) THEN [outcome |-> "uninitialized", st |-> st, cf |-> cf]
       ELSE IF \E h \in handles : h # 0 /\ st.nodes[h].kind # "Dict"
       THEN [outcome |-> "aborted", st |-> st, cf |-> cf]
       ELSE IF 0 \in handles THEN [outcome |-> "aborted", st |-> st, cf |-> cf]
       ELSE [outcome |-> "deleted", st |-> DeleteNodes(st, handles, dry_run),
             cf |-> UpdateOptions(st, cf)]

(***************************************************************************)
(* The configs a user works with directly: initial states and actions      *)
(***************************************************************************)
MaxCreated == 1
MaxDeleted == 1

\* records of an older export, already in the store (the group extras refer
\* to such imports): one without 'resources', one with per-machine counts,
\* and a node that is no Dict
LegacyStore ==
    [groups |-> {"iffslurm_options", "computer_options/claix18", "alt_options"},
     nodes |-> << DictNode(Attr("True", "oscar", Absent, OneDay, NoRes)),
                  DictNode(Attr("True", "th1", <<>>, OneDay, Res(2, 0, 24))),
                  OtherNode >>,
     members |-> {<<l, pk>> : l \in {"iffslurm_options", "computer_options/claix18", "alt_options"},
                              pk \in 1..3}]

Scenarios ==
    { [store |-> EmptyStore, computers |-> <<>>] } \cup
    { [store |-> st, computers |-> env] :
        st \in {EmptyStore, LegacyStore}, env \in ComputerProfiles \ {<<>>} }

UserConfigs == {"localhost", "iffslurm", "claix18", CustomName}

AltGroupNames == {<<>>, <<"alt_options">>}

KwMws == [NoKw EXCEPT !.mws = OneHour]
KwCount == [NoKw EXCEPT !.res = [given |-> "dict", nm |-> 0, tot |-> 8, per |-> 0]]
KwCsc == [NoKw EXCEPT !.csc = <<"#SBATCH", " ", "-x">>]
KwListNested == [NoKw EXCEPT !.bogus = TRUE, !.mep = <<"-v">>,
                             !.env = {<<"OMP", "scalar", "1">>, <<"PATHS", "list", "a">>}]

\* the requests get_options is called with (each with store_if_not_exist
\* True and False)
Requests ==
    { <<TRUE, "", <<>>, NoKw>>, <<FALSE, "", <<>>, NoKw>>,
      <<TRUE, "oscar", <<>>, NoKw>>, <<TRUE, "th1-2020-64", <<>>, KwMws>>,
      <<TRUE, "nope", <<>>, NoKw>>, <<TRUE, "", <<"P">>, KwCsc>>,
      <<TRUE, "oscar", <<>>, KwCount>>, <<FALSE, "oscar", <<>>, KwListNested>> }

GetOptionsArgs == { Args(s, r[1], r[2], r[3], r[4]) : s \in BOOLEAN, r \in Requests }

NoLast == [op |-> "none"]

NewManager == [configs |-> ConfigNames,
               attrs |-> {ConfigNames[i] : i \in 1..Len(ConfigNames)}]

ConfigInit ==
    /\ \E sc \in Scenarios : store = sc.store /\ computers = sc.computers
    /\ cfg = [n \in AllConfigNames |-> NewConfig(n)]
    /\ mgr = NewManager
    /\ active \in UserConfigs
    /\ nCreated = 0
    /\ last = NoLast
    /\ wcs = [u \in WcIds |-> GoodWc(<<ANG_NEW>>)]
    /\ KkrIdle

NumDeleted == Cardinality({pk \in 1..Len(store.nodes) : ~store.nodes[pk].alive})

\* config.initialize(alternative_group_names=alt)
ConfigInitialize(c, alt) ==
    LET r == Initialize(store, cfg[c], alt)
    IN /\ store' = r.st
       /\ cfg' = [cfg EXCEPT ![c] = r.cf]
       /\ last' = [op |-> "initialize",
                   was_initialized |-> cfg[c].is_initialized,
                   alt |-> alt,
                   existing |-> (Labels(cfg[c].groups) \cup {alt[i] : i \in 1..Len(alt)})
                                    \cap store.groups,
                   new_groups |-> r.st.groups # store.groups,
                   new_nodes |-> Len(r.st.nodes) - Len(store.nodes)]
       /\ UNCHANGED <<computers, mgr, active, nCreated>>
       /\ UNCHANGED kkrVars

\* config.get_options with the arguments a
ConfigGetOptions(c, a) ==
    LET r == GetOptions(store, cfg[c], computers, a)
    IN /\ (r.st # store) => nCreated < MaxCreated
       /\ store' = r.st
       /\ cfg' = [cfg EXCEPT ![c] = r.cf]
       /\ nCreated' = IF r.st # store THEN nCreated + 1 ELSE nCreated
       /\ last' = [op |-> "get_options", outcome |-> r.outcome,
                   loaded |-> r.loaded, returned |-> Cardinality(r.res),
                   stored |-> r.st # store]
       /\ UNCHANGED <<computers, mgr, active>>
       /\ UNCHANGED kkrVars

\* config.delete_options(options_nodes=nodes, dry_run=dry_run)
ConfigDeleteOptions(c, nodes, dry_run) ==
    LET r == DeleteOptions(store, cfg[c], nodes, dry_run)
    IN /\ (r.st # store) => NumDeleted < MaxDeleted
       /\ store' = r.st
       /\ cfg' = [cfg EXCEPT ![c] = r.cf]
       /\ last' = [op |-> "delete_options", dry_run |-> dry_run,
                   outcome |-> r.outcome, deleted |-> r.st # store]
       /\ UNCHANGED <<computers, mgr, active, nCreated>>
       /\ UNCHANGED kkrVars

\* the interpreter is restarted: the config objects are constructed anew
\* with their defaults, the store stays
Restart ==
    /\ \E n \in AllConfigNames : cfg[n] # NewConfig(n)
    /\ cfg' = [n \in AllConfigNames |-> NewConfig(n)]
    /\ mgr' = NewManager
    /\ last' = [op |-> "restart"]
    /\ UNCHANGED <<store, computers, active, nCreated>>
    /\ UNCHANGED kkrVars

\* the node lists delete_options is called with: the oldest node, the third
\* (in LegacyStore the node that is no Dict), the newest, an unstored Dict
NodeLists == {<<pk>> : pk \in {1, 3, Len(store.nodes)} \cap Pks(store)}
             \cup {<<pk, 0>> : pk \in {1} \cap Pks(store)} \cup {<<0>>}

UserInitialize == \E alt \in AltGroupNames : ConfigInitialize(active, alt)
UserGetOptions == \E a \in GetOptionsArgs : ConfigGetOptions(active, a)
UserDeleteOptions == \E nodes \in NodeLists, dry_run \in BOOLEAN :
                        ConfigDeleteOptions(active, nodes, dry_run)

\* a session in which configs are initialized, asked for options, and
\* constructed anew
ConfigNext == UserInitialize \/ UserGetOptions \/ Restart

SpecConfig == ConfigInit /\ [][ConfigNext]_vars

\* a session in which options are also deleted
DeleteNext == UserInitialize \/ UserGetOptions \/ UserDeleteOptions

SpecDelete == ConfigInit /\ [][DeleteNext]_vars

(***************************************************************************)
(* ComputerOptionsManager                                                  *)
(* mgr.configs: the names of the configs in _configs, in order; mgr.attrs: *)
(* the names that are attributes of the instance.                          *)
(***************************************************************************)
SeqToSet(seq) == {seq[i] : i \in 1..Len(seq)}

\* a mutation of ValidConfigNames: the selection is not looked at
ValidConfigNamesAll(m, config_names) == m.configs

\* _get_valid_config_names_from, line 1060-1061
ValidConfigNames(m, config_names) ==
    IF config_names = <<>> THEN m.configs
    ELSE SelectSeq(m.configs, LAMBDA n : IsIn(n, config_names))

\* line 1063
UnselectedConfigNames(m, valid) == SeqToSet(m.configs) \ SeqToSet(valid)

\* aiida_jutools.group.delete_groups_with_nodes(group_labels, dry_run,
\* leave_groups=False): the groups and the nodes in them are deleted
DeleteGroupsWithNodes(st, labels, dry_run) ==
    IF dry_run THEN st
    ELSE [groups |-> st.groups \ labels,
          nodes |-> [pk \in 1..Len(st.nodes) |->
                        IF \E l \in labels : <<l, pk>> \in st.members
                        THEN [st.nodes[pk] EXCEPT !.alive = FALSE]
                        ELSE st.nodes[pk]],
          members |-> {x \in st.members :
                          /\ x[1] \notin labels
                          /\ ~\E l \in labels : <<l, x[2]>> \in st.members}]

\* lines 1109-1121: the labels of the unselected configs' groups in the store
StoredGroupLabels(st, cf, unselected) ==
    {l \in st.groups : \E n \in unselected : l \in Labels(cf[n].groups)}

\* a mutation of DeleteOther: the dry run deletes as well
DeleteOtherIgnoreDryRun(st, cf, unselected, delete_other, delete_dry_run) ==
    IF delete_other /\ unselected # {}
    THEN DeleteGroupsWithNodes(st, StoredGroupLabels(st, cf, unselected), FALSE)
    ELSE st

\* lines 1102-1124
DeleteOther(st, cf, unselected, delete_other, delete_dry_run) ==
    IF delete_other /\ unselected # {}
    THEN DeleteGroupsWithNodes(st, StoredGroupLabels(st, cf, unselected), delete_dry_run)
    ELSE st

\* r: the result of Initialize for the config named names[i]
RECURSIVE InitializeEach(_, _, _, _)
InitializedOne(cf, names, i, r) ==
    InitializeEach(r.st, [cf EXCEPT ![names[i]] = r.cf], names, i + 1)

\* lines 1142-1147
InitializeEach(st, cf, names, i) ==
    IF i > Len(names) THEN [st |-> st, cfg |-> cf]
    ELSE InitializedOne(cf, names, i, Initialize(st, cf[names[i]], <<>>))

\* lines 1137-1147; valid: the valid config names, st: the store by now
RemoveAndInitialize(st, m, cf, valid) ==
    [mgr |-> [configs |-> SelectSeq(m.configs, LAMBDA n : IsIn(n, valid)),
              attrs |-> m.attrs \ UnselectedConfigNames(m, valid)],
     res |-> InitializeEach(st, cf, SelectSeq(m.configs, LAMBDA n : IsIn(n, valid)), 1)]

ManagerInitializeWith(st, m, cf, valid, delete_other, delete_dry_run) ==
    RemoveAndInitialize(
        DeleteOther(st, cf, UnselectedConfigNames(m, valid), delete_other, delete_dry_run),
        m, cf, valid)

\* ComputerOptionsManager.initialize(config_names, delete_other, delete_dry_run)
ManagerInitialized(st, m, cf, config_names, delete_other, delete_dry_run) ==
    ManagerInitializeWith(st, m, cf, ValidConfigNames(m, config_names),
                          delete_other, delete_dry_run)

\* the selections initialize is called with; "jureca" names no config
ConfigSelections ==
    { <<>>, <<"iffslurm">>, <<"claix18", "localhost">>, <<"jureca">>,
      <<"iffslurm", "jureca", "localhost">>,
      <<"claix16", "claix18", "iffslurm", "localhost">> }

ManagerInit ==
    /\ store \in {EmptyStore, LegacyStore}
    /\ computers = <<>>
    /\ cfg = [n \in AllConfigNames |-> NewConfig(n)]
    /\ mgr = NewManager
    /\ active = "localhost"
    /\ nCreated = 0
    /\ last = NoLast
    /\ wcs = [u \in WcIds |-> GoodWc(<<ANG_NEW>>)]
    /\ KkrIdle

ManagerInitialize(config_names, delete_other, delete_dry_run) ==
    LET r == ManagerInitialized(store, mgr, cfg, config_names, delete_other, delete_dry_run)
    IN /\ (delete_other /\ ~delete_dry_run) => NumDeleted < MaxDeleted
       /\ store' = r.res.st
       /\ cfg' = r.res.cfg
       /\ mgr' = r.mgr
       /\ last' = [op |-> "manager.initialize", config_names |-> config_names,
                   configs_before |-> mgr.configs,
                   deleted |-> Pks(store) \ Pks(r.res.st) # {}]
       /\ UNCHANGED <<computers, active, nCreated>>
       /\ UNCHANGED kkrVars

ManagerUserInitialize ==
    \E config_names \in ConfigSelections, delete_other \in BOOLEAN, delete_dry_run \in BOOLEAN :
        ManagerInitialize(config_names, delete_other, delete_dry_run)

\* r: the result of Initialize for the config, or the state as it was
AddedConfig(m, cf, name, r) ==
    [st |-> r.st, cfg |-> [cf EXCEPT ![name] = r.cf],
     mgr |-> [m EXCEPT !.attrs = m.attrs \cup {name}]]

\* ComputerOptionsManager.add_config(config, initialize), lines 1279-1282
AddConfig(st, m, cf, name, initialize) ==
    AddedConfig(m, cf, name,
                IF initialize THEN Initialize(st, cf[name], <<>>)
                ELSE [st |-> st, cf |-> cf[name]])

\* the configs the manager's get_options, get_groups and delete_options
\* visit for a selection, and get_help for the empty one: those of
\* self.configs whose name is valid
VisitedConfigs(m, config_names) == ValidConfigNames(m, config_names)

ManagerAddConfig(initialize) ==
    LET r == AddConfig(store, mgr, cfg, CustomName, initialize)
    IN /\ CustomName \notin mgr.attrs
       /\ store' = r.st
       /\ cfg' = r.cfg
       /\ mgr' = r.mgr
       /\ last' = [op |-> "manager.add_config", initialize |-> initialize]
       /\ UNCHANGED <<computers, active, nCreated>>
       /\ UNCHANGED kkrVars

ManagerUserAddConfig == \E initialize \in BOOLEAN : ManagerAddConfig(initialize)

\* ComputerOptionsManager.get_options, lines 1186-1199: get_options of each
\* visited config in turn, the results collected in one list; an exception
\* of a config ends the call.  r: the result of the config names[i]
RECURSIVE ManagerGetOptionsEach(_, _, _, _, _, _, _)
ManagerGotOptions(cf, env, names, i, a, acc, r) ==
    IF r.outcome = "raised"
    THEN [outcome |-> "raised", res |-> {}, st |-> r.st,
          cfg |-> [cf EXCEPT ![names[i]] = r.cf]]
    ELSE ManagerGetOptionsEach(r.st, [cf EXCEPT ![names[i]] = r.cf], env, names, i + 1, a,
                               acc \cup {[config |-> names[i], pk |-> x.pk, attrs |-> x.attrs] :
                                            x \in r.res})

ManagerGetOptionsEach(st, cf, env, names, i, a, acc) ==
    IF i > Len(names) THEN [outcome |-> "returned", res |-> acc, st |-> st, cfg |-> cf]
    ELSE ManagerGotOptions(cf, env, names, i, a, acc, GetOptions(st, cf[names[i]], env, a))

ManagerGetOptions(st, m, cf, env, config_names, a) ==
    ManagerGetOptionsEach(st, cf, env, VisitedConfigs(m, config_names), 1, a, {})

ManagerGetOptionsCall(config_names, a) ==
    LET r == ManagerGetOptions(store, mgr, cfg, computers, config_names, a)
    IN /\ (r.st # store) => nCreated < MaxCreated
       /\ store' = r.st
       /\ cfg' = r.cfg
       /\ nCreated' = IF r.st # store THEN nCreated + 1 ELSE nCreated
       /\ last' = [op |-> "manager.get_options", config_names |-> config_names,
                   outcome |-> r.outcome,
                   visited |-> VisitedConfigs(mgr, config_names),
                   returned |-> Cardinality(r.res)]
       /\ UNCHANGED <<computers, mgr, active>>
       /\ UNCHANGED kkrVars

\* the selections the manager's get_options is called with
QuerySelections == { <<>>, <<CustomName>> }

\* the requests the manager's get_options is called with: those without
\* keyword options
ManagerRequests == {a \in GetOptionsArgs : a.kw = NoKw}

ManagerUserGetOptions ==
    \E config_names \in QuerySelections, a \in ManagerRequests :
        ManagerGetOptionsCall(config_names, a)

\* manager.initialize() with its default arguments
ManagerInitializeDefault == ManagerInitialize(<<>>, FALSE, TRUE)

ManagerNext == ManagerUserInitialize \/ Restart

\* a session in which a config is added to the manager
AddConfigInit ==
    /\ store \in {EmptyStore, LegacyStore}
    /\ computers \in {env \in ComputerProfiles : Len(env) = 3}
    /\ cfg = [n \in AllConfigNames |-> NewConfig(n)]
    /\ mgr = NewManager
    /\ active = CustomName
    /\ nCreated = 0
    /\ last = NoLast
    /\ wcs = [u \in WcIds |-> GoodWc(<<ANG_NEW>>)]
    /\ KkrIdle

AddConfigNext ==
    ManagerInitializeDefault \/ ManagerUserAddConfig \/ ManagerUserGetOptions \/ Restart

SpecAddConfig == AddConfigInit /\ [][AddConfigNext]_vars

SpecManager == ManagerInit /\ [][ManagerNext]_vars

KkrInit ==
    /\ wcs \in [WcIds -> WorkchainContents]
    /\ KkrIdle
    /\ store = EmptyStore /\ computers = <<>>
    /\ cfg = [n \in AllConfigNames |-> NewConfig(n)]
    /\ mgr = NewManager /\ active = "localhost" /\ nCreated = 0 /\ last = NoLast

KkrCheck == \E u \in WcIds, set_extra \in BOOLEAN : CheckSingleWorkchain(u, set_extra)

\* the process_labels check_workchain_group is called with
ProcessLabels == { {}, {"kkr_scf_wc", "kkr_imp_wc"} }

KkrCheckGroup ==
    \E process_labels \in ProcessLabels, set_extra \in BOOLEAN :
        CheckWorkchainGroup(process_labels, set_extra)

KkrNext == KkrCheck \/ KkrCheckGroup \/ Clear

SpecKkr == KkrInit /\ [][KkrNext]_vars

(***************************************************************************)
(* Part 6. Data nodes (util_data.py)                                       *)
(*                                                                         *)
(* The nodes of the store are CifData, StructureData and Dict nodes with   *)
(* the attributes                                                          *)
(*   src       the StructureData inputs of the CalcFunctionNode that made  *)
(*             the node (pks; {} for a node no calcfunction made)          *)
(*   kinds     the 'kinds' attribute (the chemical element)                *)
(*   setting   of a conversion-settings Dict: the value under 'store',     *)
(*             "True", "False" or "absent"                                 *)
(***************************************************************************)
DataNode(kind, src, kinds, setting) ==
    [kind |-> kind, alive |-> TRUE, attrs |-> [src |-> src, kinds |-> kinds, setting |-> setting]]

CifNode(kinds) == DataNode("CifData", {}, kinds, "absent")
StructureNode(src, kinds) == DataNode("StructureData", src, kinds, "absent")
SettingsNode(setting) == DataNode("Dict", {}, "", setting)

\* [node for node in group.nodes if isinstance(node, kind)]; an unset group
\* (None) has no label of the store
NodesOfKind(st, l, kind) ==
    {pk \in Pks(st) : <<l, pk>> \in st.members /\ st.nodes[pk].kind = kind}

\* GroupPath(label).get_or_create_group(): the group is created and stored
\* if no group has the label
GetOrCreateGroup(st, label) == [st EXCEPT !.groups = st.groups \cup {label}]

NoGroup == "<None>"

\* the arguments of load_or_convert (cif: cifgroup_label, label:
\* structure_group_label); conversion_settings: "None" or the 'store' value
\* of an unstored Dict passed in
ConvertArgs(cif, label, as_subgroup, load_over_create, conversion_settings, dry_run) ==
    [cif |-> cif, label |-> label, as_subgroup |-> as_subgroup,
     load_over_create |-> load_over_create, conversion_settings |-> conversion_settings,
     dry_run |-> dry_run]

\* lines 193-195: a trailing path separator is trimmed off
TrimSeparator(label) == IF label = "strucs/" THEN "strucs" ELSE label

\* _determine_structure_group_path
StructureGroupPath(a) ==
    IF ~a.as_subgroup THEN a.label ELSE a.cif \o "/" \o TrimSeparator(a.label)

\* LoadOrCreateStructureGroup creating the group in a dry run too
LoadOrCreateStructureGroupAlways(st, a, path) ==
    [st |-> GetOrCreateGroup(st, path), struc_group |-> path]

\* _load_or_create_structure_group: the store afterwards and self.struc_group
LoadOrCreateStructureGroup(st, a, path) ==
    IF a.dry_run
    THEN [st |-> st, struc_group |-> IF path \in st.groups THEN path ELSE NoGroup]
    ELSE [st |-> GetOrCreateGroup(st, path), struc_group |-> path]

\* _try_load_conversion_settings: the Dict nodes of the structure group
SettingsHits(st, struc_group) ==
    IF struc_group = NoGroup THEN {} ELSE NodesOfKind(st, struc_group, "Dict")

\* _load_or_create_conversion_settings, for at most one hit: the settings
\* node to use, pk 0 for an unstored one
ConversionSettings(st, struc_group, conversion_settings) ==
    IF SettingsHits(st, struc_group) # {}
    THEN [pk |-> SetMin(SettingsHits(st, struc_group)),
          store |-> st.nodes[SetMin(SettingsHits(st, struc_group))].attrs.setting]
    ELSE IF conversion_settings # "None" THEN [pk |-> 0, store |-> conversion_settings]
    ELSE [pk |-> 0, store |-> "True"]      \* DEFAULT_CONVERSION_SETTINGS

\* _check_conversion_settings: 'store' of an unstored node is set to True
CheckConversionSettings(cs, dry_run) ==
    IF cs.store = "False" /\ cs.pk = 0 /\ ~dry_run THEN [cs EXCEPT !.store = "True"] ELSE cs

\* lines 312-317: cif.get_structure(store=True) for each CifData node, each
\* StructureData stored by the conversion and added to the structure group
RECURSIVE ConvertEach(_, _, _, _)
ConvertEach(st, struc_group, cifs, i) ==
    IF i > Len(cifs) THEN st
    ELSE ConvertEach(AddToGroups(StoreNode(st, StructureNode({}, st.nodes[cifs[i]].attrs.kinds)),
                                 {struc_group}, Len(st.nodes) + 1),
                     struc_group, cifs, i + 1)

NoSettings == [pk |-> 0, store |-> "absent"]

\* how the call ended, the store, self.struc_group and self.conversion_settings
DataResult(outcome, st, struc_group, cs) ==
    [outcome |-> outcome, st |-> st, struc_group |-> struc_group, settings |-> cs]

\* lines 309-317, st: the store with the conversion settings stored.  With
\* store=False the conversion returns unstored nodes and add_nodes raises.
ConvertWith(st, struc_group, cs, cifs) ==
    IF cs.store = "False" THEN DataResult("UnstoredNodes", st, struc_group, cs)
    ELSE DataResult("returned", ConvertEach(st, struc_group, SetToSeq(cifs), 1), struc_group, cs)

\* _load_or_convert
LoadOrConvertNodes(st, a, struc_group, cs, cifs) ==
    IF a.load_over_create /\ NodesOfKind(st, struc_group, "StructureData") # {}
    THEN DataResult("returned", st, struc_group, cs)
    ELSE IF a.dry_run THEN DataResult("returned", st, struc_group, cs)
    ELSE IF cs.pk # 0 THEN ConvertWith(st, struc_group, cs, cifs)
    ELSE ConvertWith(AddToGroups(StoreNode(st, SettingsNode(cs.store)),
                                 {struc_group}, Len(st.nodes) + 1),
                     struc_group, [cs EXCEPT !.pk = Len(st.nodes) + 1], cifs)

\* AfterStructureGroup without the test of lines 232-236
AfterStructureGroupFirstHit(a, g, cifs) ==
    LoadOrConvertNodes(g.st, a, g.struc_group,
                       CheckConversionSettings(
                           ConversionSettings(g.st, g.struc_group, a.conversion_settings),
                           a.dry_run),
                       cifs)

\* g: the result of LoadOrCreateStructureGroup.  More than one Dict in the
\* structure group: ValueError (lines 232-236)
AfterStructureGroup(a, g, cifs) ==
    IF Cardinality(SettingsHits(g.st, g.struc_group)) > 1
    THEN DataResult("AmbiguousSettings", g.st, g.struc_group, NoSettings)
    ELSE LoadOrConvertNodes(g.st, a, g.struc_group,
                            CheckConversionSettings(
                                ConversionSettings(g.st, g.struc_group, a.conversion_settings),
                                a.dry_run),
                            cifs)

\* CifImporter.load_or_convert with the arguments a: how the call ended
\* ("returned", or the exception: "NotExistent" of Group.get, ValueError as
\* "AmbiguousSettings" or "UnstoredNodes"), the store, and self.struc_group
LoadOrConvert(st, a) ==
    IF a.cif \notin st.groups THEN DataResult("NotExistent", st, NoGroup, NoSettings)
    ELSE IF NodesOfKind(st, a.cif, "CifData") = {}
    THEN DataResult("returned", st, NoGroup, NoSettings)
    ELSE AfterStructureGroup(a, LoadOrCreateStructureGroup(st, a, StructureGroupPath(a)),
                             NodesOfKind(st, a.cif, "CifData"))

\* query_modified_input_structure(modified_structure, invariant_kinds=True):
\* the StructureData inputs of the calcfunction that made the node, with its
\* kinds
QueryModifiedInputStructure(st, pk) ==
    {x \in st.nodes[pk].attrs.src \cap Pks(st) :
        /\ st.nodes[x].kind = "StructureData"
        /\ st.nodes[x].attrs.kinds = st.nodes[pk].attrs.kinds}

\* AlreadyRescaled finding no output
AlreadyRescaledNone(st, inp, out) == {}

\* lines 390-398: the input structures that have an output in the output group
AlreadyRescaled(st, inp, out) ==
    {x \in NodesOfKind(st, inp, "StructureData") :
        \E o \in NodesOfKind(st, out, "StructureData") : x \in QueryModifiedInputStructure(st, o)}

\* rescale_structure(input_structure, scale_factor): a calcfunction; its
\* output is a stored StructureData with the kinds of the input
RescaleStructure(st, pk) == StoreNode(st, StructureNode({pk}, st.nodes[pk].attrs.kinds))

\* lines 408-414
RECURSIVE RescaleEach(_, _, _, _)
RescaleEach(st, out, inps, i) ==
    IF i > Len(inps) THEN st
    ELSE RescaleEach(AddToGroups(RescaleStructure(st, inps[i]), {out}, Len(st.nodes) + 1),
                     out, inps, i + 1)

\* st: the store after get_or_create_group
RescaleRemaining(st, inp, out, dry_run) ==
    IF dry_run THEN st
    ELSE RescaleEach(st, out, SetToSeq(NodesOfKind(st, inp, "StructureData")
                                           \ AlreadyRescaled(st, inp, out)), 1)

\* load_or_rescale_structures(input_structure_group, output_structure_group_label,
\* scale_factor, dry_run): the store afterwards
LoadOrRescaleStructures(st, inp, out, dry_run) ==
    RescaleRemaining(GetOrCreateGroup(st, out), inp, out, dry_run)

(***************************************************************************)
(* The data tools: initial stores and actions                              *)
(***************************************************************************)
MaxNodes == 11

\* a CIF group of two files, as import_cif_files leaves it
CifStore ==
    [groups |-> {"cifs"}, nodes |-> <<CifNode("Fe"), CifNode("Cu")>>,
     members |-> {<<"cifs", 1>>, <<"cifs", 2>>}]

\* the CIF group and a structure group holding the given Dict nodes
WithSettings(st, settings) ==
    [groups |-> st.groups \cup {"cifs/strucs"},
     nodes |-> st.nodes \o [i \in 1..Len(settings) |-> SettingsNode(settings[i])],
     members |-> st.members \cup {<<"cifs/strucs", Len(st.nodes) + i>> : i \in 1..Len(settings)}]

DataStores ==
    { CifStore,
      [EmptyStore EXCEPT !.groups = {"cifs"}],          \* a folder without CIF files
      WithSettings(CifStore, <<"True", "True">>),
      WithSettings(CifStore, <<"False">>),
      WithSettings([EmptyStore EXCEPT !.groups = {"cifs"}], <<"True", "True">>) }

ConvertRequests ==
    { ConvertArgs(c, l, s, o, cs, d) :
        c \in {"cifs", "nocifs"}, l \in {"strucs", "strucs/"}, s \in BOOLEAN, o \in BOOLEAN,
        cs \in {"None", "False"}, d \in BOOLEAN }

StructureGroupLabels == {"cifs/strucs", "scaled"}

DataInit ==
    /\ store \in DataStores
    /\ computers = <<>>
    /\ cfg = [n \in AllConfigNames |-> NewConfig(n)]
    /\ mgr = NewManager /\ active = "localhost" /\ nCreated = 0 /\ last = NoLast
    /\ wcs = [u \in WcIds |-> GoodWc(<<ANG_NEW>>)]
    /\ KkrIdle

\* CifImporter().load_or_convert with the arguments a
DataLoadOrConvert(a) ==
    LET r == LoadOrConvert(store, a)
    IN /\ Len(r.st.nodes) <= MaxNodes
       /\ store' = r.st
       /\ last' = [op |-> "load_or_convert", outcome |-> r.outcome, dry_run |-> a.dry_run,
                   cifs |-> Cardinality(NodesOfKind(store, a.cif, "CifData")),
                   settings |-> Cardinality(NodesOfKind(store, StructureGroupPath(a), "Dict")),
                   changed |-> r.st # store]
       /\ UNCHANGED <<computers, cfg, mgr, active, nCreated>>
       /\ UNCHANGED kkrVars

\* load_or_rescale_structures(Group.get(label=inp), out, scale_factor, dry_run)
DataLoadOrRescale(inp, out, dry_run) ==
    LET st == LoadOrRescaleStructures(store, inp, out, dry_run)
    IN /\ inp \in store.groups
       /\ Len(st.nodes) <= MaxNodes
       /\ store' = st
       /\ last' = [op |-> "load_or_rescale_structures", inp |-> inp, out |-> out,
                   dry_run |-> dry_run, changed |-> st # store]
       /\ UNCHANGED <<computers, cfg, mgr, active, nCreated>>
       /\ UNCHANGED kkrVars

UserLoadOrConvert == \E a \in ConvertRequests : DataLoadOrConvert(a)

UserLoadOrRescale ==
    \E inp \in StructureGroupLabels, out \in StructureGroupLabels, dry_run \in BOOLEAN :
        DataLoadOrRescale(inp, out, dry_run)

DataNext == UserLoadOrConvert \/ UserLoadOrRescale

SpecData == DataInit /\ [][DataNext]_vars

----------------------------------------------------------------------------
(***************************************************************************)
(* The claims.  R(a) is the result of get_options with arguments a on the  *)
(* config in use in the current state.                                     *)
(***************************************************************************)
R(a) == GetOptions(store, cfg[active], computers, a)

(* C1: get_options(store_if_not_exist=True) is idempotent: a second call   *)
(* with the same arguments returns the same record(s) as the first and     *)
(* stores nothing more.                                                    *)
C1Again(r1, r2) == r2.outcome = "returned" /\ r2.res = r1.res /\ r2.st = r1.st

C1Holds(a, r1) ==
    r1.outcome = "returned" => C1Again(r1, GetOptions(r1.st, r1.cf, computers, a))

C1_Idempotent == \A a \in GetOptionsArgs : a.store => C1Holds(a, R(a))

(* C2: every record get_options loads from the store belongs to one of the *)
(* config's groups and equals the request on every field the request       *)
(* specifies: withmpi (True and False alike), queue_name, account, and     *)
(* every valid keyword, list-valued and nested ones included.              *)
C2Equal(x, a, kw) ==
    /\ a.withmpi <=> (x.withmpi = "True")
    /\ a.queue_name # "" => x.queue_name = a.queue_name
    /\ a.account # <<>> => (x.csc # Absent /\ ILikeContains(x.csc, AccountFlag(a.account)))
    /\ kw.mws # 0 => x.mws = kw.mws
    /\ kw.csc # Absent => x.csc = kw.csc
    /\ kw.mep # Absent => x.mep = kw.mep
    /\ kw.env # AbsentDict => (x.env # AbsentDict /\ kw.env \subseteq x.env)
    /\ kw.res.given = "dict" =>
          /\ kw.res.nm # 0 => (x.res.present /\ x.res.nm = kw.res.nm)
          /\ kw.res.tot # 0 => (x.res.present /\ x.res.tot = kw.res.tot)
          /\ kw.res.per # 0 => (x.res.present /\ x.res.per = kw.res.per)

C2Holds(a, r) ==
    r.loaded =>
        \A x \in r.res :
            /\ \E l \in Labels(r.cf.groups) : <<l, x.pk>> \in r.st.members
            /\ C2Equal(x.attrs, a, ValidKwargs(a.kw))

C2_LoadedEqualsRequest == \A a \in GetOptionsArgs : C2Holds(a, R(a))

(* C3: the MPI process count of a record created for withmpi=True is       *)
(* chosen, on every call, by strict priority: the explicit argument, else  *)
(* the maximum over the existing options of the same queue_name, else the  *)
(* minimum over all existing options with withmpi, else the computer's     *)
(* default, else 1.                                                        *)
Count(res) == IF res.tot # 0 THEN res.tot ELSE res.per

WithCount(opts) ==
    {i \in 1..Len(opts) : opts[i].attrs.withmpi = "True" /\ opts[i].attrs.res.present
                            /\ opts[i].attrs.res.tot # 0}

SameQueue(opts, queue_name) ==
    {i \in WithCount(opts) : queue_name # "" /\ opts[i].attrs.queue_name = queue_name}

PriorityCount(kw, opts, queue_name, env, comps) ==
    IF kw.res.given = "dict" /\ Count(kw.res) # 0 THEN Count(kw.res)
    ELSE IF SameQueue(opts, queue_name) # {}
    THEN SetMax({opts[i].attrs.res.tot : i \in SameQueue(opts, queue_name)})
    ELSE IF WithCount(opts) # {}
    THEN SetMin({opts[i].attrs.res.tot : i \in WithCount(opts)})
    ELSE IF comps # <<>> /\ env[comps[1]].mpiprocs # 0 THEN env[comps[1]].mpiprocs
    ELSE 1

C3Holds(a, r) ==
    (a.withmpi /\ r.outcome = "returned" /\ ~r.loaded) =>
        Count(r.created.attrs.res) =
            PriorityCount(ValidKwargs(a.kw), UpdateOptions(store, cfg[active]).options,
                          r.created.attrs.queue_name, computers,
                          ConfigComputers(r.cf, computers))

C3_MpiCountPriority == \A a \in GetOptionsArgs : C3Holds(a, R(a))

(* C4: every record get_options returns has a non-empty 'resources'; a     *)
(* record lacking it, loaded or created, is never returned.                *)
C4Holds(r) == \A x \in r.res : ResTruthy(x.attrs.res)

C4_ResourcesNonEmpty == \A a \in GetOptionsArgs : C4Holds(R(a))

\* get_options found a stored record lacking 'resources' and returned nothing
C4_Witness ==
    /\ last.op = "get_options" /\ last.outcome = "returned"
    /\ last.loaded /\ last.returned = 0
    /\ \E pk \in Pks(store) : \E l \in Labels(cfg[active].groups) :
          /\ <<l, pk>> \in store.members
          /\ store.nodes[pk].kind = "Dict" /\ ~ResTruthy(store.nodes[pk].attrs.res)

(* C5: the recorded constants_version is a candidate of minimal absolute   *)
(* distance to the reverse-computed value, and among equally close         *)
(* candidates the priority is NEW over OLD over INTERIM.                   *)
Priority(ctype) == CASE ctype = "NEW" -> 1 [] ctype = "OLD" -> 2 [] ctype = "INTERIM" -> 3

Closest(a2b) == {c \in {"NEW", "OLD", "INTERIM"} :
                    \A c2 \in {"NEW", "OLD", "INTERIM"} :
                        Abs(a2b - ANG_BOHR_KKR(c)) <= Abs(a2b - ANG_BOHR_KKR(c2))}

C5_ClosestWithPriority ==
    \A u \in WcIds : df[u].checked =>
        /\ df[u].constants_version \in Closest(df[u].ANG_BOHR_KKR)
        /\ \A c \in Closest(df[u].ANG_BOHR_KKR) :
              Priority(df[u].constants_version) <= Priority(c)

(* C6: after initialize() on a config that was not initialized, the config *)
(* is marked initialized, every group in its group list is stored, and     *)
(* every default option is stored and a member of at least one of the      *)
(* config's groups.                                                        *)
C6Holds(r) ==
    /\ r.cf.is_initialized
    /\ r.cf.groups # <<>>
    /\ \A i \in 1..Len(r.cf.groups) :
          r.cf.groups[i].is_stored /\ r.cf.groups[i].label \in r.st.groups
    /\ Len(r.cf.options) = Len(DefaultOptions(r.cf.name))
    /\ \A i \in 1..Len(r.cf.options) :
          /\ r.cf.options[i].pk \in Pks(r.st)
          /\ r.st.nodes[r.cf.options[i].pk].kind = "Dict"
          /\ r.st.nodes[r.cf.options[i].pk].attrs = DefaultOptions(r.cf.name)[i]
          /\ \E l \in Labels(r.cf.groups) : <<l, r.cf.options[i].pk>> \in r.st.members

C6_InitializeStoresAll ==
    \A alt \in AltGroupNames :
        ~cfg[active].is_initialized => C6Holds(Initialize(store, cfg[active], alt))

\* initialize() has just stored the default options of a config
C6_Witness ==
    /\ last.op = "initialize" /\ ~last.was_initialized /\ last.new_nodes > 0
    /\ cfg[active].is_initialized

(* C7: initialize() never duplicates: a default option for which an        *)
(* attribute-equal Dict is stored in the config's groups is replaced by    *)
(* that Dict instead of being stored again, and a second initialize(), on  *)
(* the same object or on a fresh object with the same defaults against the *)
(* same store, creates no new group and no new record.  The second call is *)
(* made with the alternative_group_names of the first.                     *)
OldDicts(st, r) == UNION {GroupDicts(st, l) : l \in Labels(r.cf.groups)}

C7Replaces(st, r) ==
    \A pk \in (Len(st.nodes) + 1)..Len(r.st.nodes) :
        ~\E old \in OldDicts(st, r) : st.nodes[old].attrs = r.st.nodes[pk].attrs

C7Second(r1, r2) == r2.st = r1.st /\ r2.cf.is_initialized

C7Holds(st, cf, alt, r1) ==
    /\ C7Replaces(st, r1)
    /\ C7Second(r1, Initialize(r1.st, r1.cf, alt))
    /\ C7Second(r1, Initialize(r1.st, NewConfig(cf.name), alt))

C7_InitializeNoDuplicates ==
    \A alt \in AltGroupNames :
        ~cfg[active].is_initialized =>
            C7Holds(store, cfg[active], alt, Initialize(store, cfg[active], alt))

\* a fresh config object was initialized against a store that already held
\* its groups and options: nothing was created
C7_Witness ==
    /\ last.op = "initialize" /\ ~last.was_initialized
    /\ last.new_nodes = 0 /\ ~last.new_groups
    /\ cfg[active].options # <<>>

(* C8: until initialize() has been called, get_options returns the empty   *)
(* list and delete_options returns without deleting; nothing is created,   *)
(* stored or deleted.                                                      *)
C8Get(r) ==
    r.outcome = "uninitialized" /\ r.res = {} /\ r.st = store /\ r.cf = cfg[active]

C8Delete(r) == r.outcome = "uninitialized" /\ r.st = store /\ r.cf = cfg[active]

C8_UninitializedNoOp ==
    ~cfg[active].is_initialized =>
        /\ \A a \in GetOptionsArgs : C8Get(R(a))
        /\ \A nodes \in NodeLists, dry_run \in BOOLEAN :
              C8Delete(DeleteOptions(store, cfg[active], nodes, dry_run))

\* delete_options was called for real on a config not initialized, with
\* records in the store
C8_Witness ==
    /\ last.op = "delete_options" /\ last.outcome = "uninitialized" /\ ~last.dry_run
    /\ ~cfg[active].is_initialized
    /\ Pks(store) # {}

(* C9: with store_if_not_exist=False get_options leaves the store          *)
(* unchanged, and a record it creates is unstored and in no group; with    *)
(* store_if_not_exist=True a created record is stored and added to every   *)
(* group of the config.                                                    *)
C9Stored(r) ==
    /\ r.created.pk = Len(store.nodes) + 1
    /\ Len(r.st.nodes) = Len(store.nodes) + 1
    /\ r.created.pk \in Pks(r.st)
    /\ r.st.nodes[r.created.pk] = DictNode(r.created.attrs)
    /\ \A i \in 1..Len(r.cf.groups) : <<r.cf.groups[i].label, r.created.pk>> \in r.st.members

C9Holds(a, r) ==
    /\ ~a.store => r.st = store
    /\ (r.outcome = "returned" /\ ~r.loaded) =>
          IF a.store THEN C9Stored(r) ELSE r.created.pk = 0 /\ r.st = store

C9_StoreIfNotExist == \A a \in GetOptionsArgs : C9Holds(a, R(a))

\* get_options has just created and stored a record
C9_Witness ==
    /\ last.op = "get_options" /\ last.outcome = "returned"
    /\ ~last.loaded /\ last.stored /\ last.returned = 1

(* C10: after ComputerOptionsManager.initialize(config_names=S) the        *)
(* manager's config list is exactly the configs present before whose names *)
(* are in S (all of them when S is empty), in their original order, each   *)
(* of them initialized; every unselected config is removed from the        *)
(* manager, and names in S that match no config are ignored.               *)
Selected(configs, S) == SelectSeq(configs, LAMBDA n : S = <<>> \/ IsIn(n, S))

C10Holds(m, S, r) ==
    /\ r.mgr.configs = Selected(m.configs, S)
    /\ \A i \in 1..Len(r.mgr.configs) : r.res.cfg[r.mgr.configs[i]].is_initialized
    /\ r.mgr.attrs = m.attrs \ (SeqToSet(m.configs) \ SeqToSet(Selected(m.configs, S)))
    /\ SeqToSet(r.mgr.configs) \subseteq SeqToSet(m.configs)

C10_ManagerInitializeSelects ==
    \A S \in ConfigSelections, delete_other \in BOOLEAN, delete_dry_run \in BOOLEAN :
        C10Holds(mgr, S, ManagerInitialized(store, mgr, cfg, S, delete_other, delete_dry_run))

\* initialize was called on the full manager with a selection in another
\* order and with a name that matches no config
C10_Witness ==
    /\ last.op = "manager.initialize"
    /\ last.config_names = <<"iffslurm", "jureca", "localhost">>
    /\ last.configs_before = ConfigNames
    /\ mgr.configs = <<"localhost", "iffslurm">>
    /\ mgr.attrs = {"localhost", "iffslurm"}
    /\ cfg["localhost"].is_initialized /\ cfg["iffslurm"].is_initialized
    /\ ~cfg["claix18"].is_initialized

(* C11: ComputerOptionsManager.initialize deletes the groups and nodes of  *)
(* the unselected configs from the store only when delete_other=True and   *)
(* delete_dry_run=False; in every other case the stored groups and nodes   *)
(* of the unselected configs are unchanged.  The unselected configs are    *)
(* removed from the manager instance in any case.                          *)
UnselectedOf(m, S) == SeqToSet(m.configs) \ SeqToSet(Selected(m.configs, S))

\* the labels of the groups of the unselected configs, as the configs hold them
UnselectedLabels(m, cf, S) == UNION {Labels(cf[n].groups) : n \in UnselectedOf(m, S)}

GroupNodes(st, l) == {pk \in Pks(st) : <<l, pk>> \in st.members}

C11Deleted(st, labels, r) ==
    \A l \in labels \cap st.groups :
        /\ l \notin r.res.st.groups
        /\ \A pk \in GroupNodes(st, l) : pk \notin Pks(r.res.st)

C11Unchanged(st, labels, r) ==
    \A l \in labels :
        /\ l \in st.groups <=> l \in r.res.st.groups
        /\ GroupNodes(r.res.st, l) = GroupNodes(st, l)
        /\ \A pk \in GroupNodes(st, l) : r.res.st.nodes[pk] = st.nodes[pk]

C11Holds(m, cf, S, delete_other, delete_dry_run, r) ==
    /\ IF delete_other /\ ~delete_dry_run
       THEN C11Deleted(store, UnselectedLabels(m, cf, S), r)
       ELSE C11Unchanged(store, UnselectedLabels(m, cf, S), r)
    /\ \A n \in UnselectedOf(m, S) : ~IsIn(n, r.mgr.configs) /\ n \notin r.mgr.attrs

C11_DeleteOtherOnlyForReal ==
    \A S \in ConfigSelections, delete_other \in BOOLEAN, delete_dry_run \in BOOLEAN :
        C11Holds(mgr, cfg, S, delete_other, delete_dry_run,
                 ManagerInitialized(store, mgr, cfg, S, delete_other, delete_dry_run))

\* initialize(["iffslurm"]) on a full manager has just deleted the stored
\* group and records of the unselected config claix18
C11_Witness ==
    /\ last.op = "manager.initialize"
    /\ last.config_names = <<"iffslurm">> /\ last.configs_before = ConfigNames
    /\ last.deleted
    /\ mgr.configs = <<"iffslurm">>
    /\ "computer_options/claix18" \notin store.groups
    /\ \E pk \in 1..Len(store.nodes) : ~store.nodes[pk].alive

(* C12: after ComputerOptionsManager.add_config(config) the config is a    *)
(* named attribute of the manager and is included in the manager's         *)
(* collective config methods: it appears in configs / config_names and is  *)
(* visited by the manager's get_options, get_groups, get_help and          *)
(* delete_options.                                                         *)
C12_AddConfigIncluded ==
    CustomName \in mgr.attrs =>
        /\ IsIn(CustomName, mgr.configs)
        /\ IsIn(CustomName, VisitedConfigs(mgr, <<>>))
        /\ IsIn(CustomName, VisitedConfigs(mgr, <<CustomName>>))
        /\ last.op = "manager.get_options" => IsIn(CustomName, last.visited)

(* C13: when a mandatory field cannot be satisfied, get_options raises and *)
(* creates or stores no record: 'account' is mandatory and not supplied;   *)
(* 'queue_name' is mandatory and no computer of the profile reports a      *)
(* queue; a supplied queue_name is not among the queues of the computer.   *)
(* When 'queue_name' is mandatory and not supplied, the first queue the    *)
(* computer reports is the queue_name of every record returned.            *)
C13Raises(r) ==
    r.outcome = "raised" /\ r.st = store /\ r.res = {} /\ r.created = NoItem

\* the queues of the first computer matching the config's name that has any
C13Reported(env, name) ==
    LET with == SelectSeq(GetComputers(env, name), LAMBDA i : env[i].queues # <<>>)
    IN IF with = <<>> THEN <<>> ELSE env[with[1]].queues

C13Holds(name, env, a, r) ==
    /\ (IsIn("account", Mandatory(name)) /\ a.account = <<>>) => C13Raises(r)
    /\ IsIn("queue_name", Mandatory(name)) =>
          /\ C13Reported(env, name) = <<>> => C13Raises(r)
          /\ (a.queue_name # "" /\ ~IsIn(a.queue_name, C13Reported(env, name))) => C13Raises(r)
          /\ (a.queue_name = "" /\ C13Reported(env, name) # <<>>) =>
                /\ r.outcome = "returned"
                /\ r.res # {}
                /\ \A x \in r.res : x.attrs.queue_name = C13Reported(env, name)[1]

C13_MandatoryRaisesOrFirstQueue ==
    cfg[active].is_initialized =>
        \A a \in GetOptionsArgs : C13Holds(active, computers, a, R(a))

\* a call on the initialized iffslurm config with a queue its computer does
\* not report has raised, and one without queue_name returns a 'th1' record
C13_Witness ==
    /\ active = "iffslurm" /\ cfg[active].is_initialized
    /\ Len(computers) = 3
    /\ last.op = "get_options" /\ last.outcome = "raised" /\ ~last.stored
    /\ C13Raises(R(Args(TRUE, TRUE, "nope", <<>>, NoKw)))
    /\ \E x \in R(Args(TRUE, TRUE, "", <<>>, NoKw)).res : x.attrs.queue_name = "th1"

(* C14: check_single_workchain skips a workchain that has no               *)
(* kkr_startpot_wc descendant, no VoronoiCalculation descendant, no         *)
(* retrievable inputcard, or not exactly one ALATBASIS line: it returns     *)
(* without raising, adds no row and sets no extra, and                      *)
(* check_workchain_group goes on with the remaining workchains.             *)
KkrLabels == {"kkr_scf_wc", "kkr_imp_wc"}

C14Skipped(w) ==
    w.label \in KkrLabels /\ (~w.startpot \/ ~w.voro \/ ~w.inputcard \/ w.nAlat # 1)

\* a workchain check_single_workchain can classify
Classifiable(w) ==
    /\ w.label \in KkrLabels /\ w.startpot /\ w.voro /\ w.inputcard /\ w.nAlat = 1
    /\ w.shapeB /\ w.shapeP /\ \E i \in 1..Len(w.samples) : w.samples[i] # 0

C14Single(r) == r.outcome = "skip" /\ r.df = df /\ r.wcExtra = wcExtra

\* the group holds skipped and classifiable workchains only: the loop ends
\* normally, with a row for each classifiable one and none for a skipped one
C14Group(r) ==
    /\ r.outcome = "done"
    /\ \A u \in WcIds :
          /\ Classifiable(wcs[u]) => r.df[u].checked
          /\ C14Skipped(wcs[u]) => (r.df[u] = df[u] /\ r.wcExtra[u] = wcExtra[u])

C15Mismatch(w) ==
    /\ w.label \in KkrLabels /\ w.startpot /\ w.voro /\ w.inputcard /\ w.nAlat = 1
    /\ (~w.shapeB \/ ~w.shapeP)

C15_ShapeMismatchSkips ==
    /\ (kkrLast.op = "check" /\ kkrLast.outcome # "already"
            /\ C15Mismatch(wcs[kkrLast.wc])) =>
          kkrLast.outcome = "skip" /\ ~df[kkrLast.wc].checked
    /\ (kkrLast.op = "check_group" /\ kkrLast.outcome # "nothing"
            /\ \A u \in WcIds : C15Mismatch(wcs[u]) \/ Classifiable(wcs[u])) =>
          /\ kkrLast.outcome = "done"
          /\ \A u \in WcIds : df[u].checked <=> Classifiable(wcs[u])

(* C17: a workchain whose reverse-calculated value fits none of NEW, OLD    *)
(* and INTERIM by a wide margin is recorded as NEITHER, one whose value is  *)
(* in their range but fits none of them as UNDECISIVE; the recorded         *)
(* constants_version is a member of the enum.                               *)
C17FitsNone(a2b) == a2b \notin {ANG_NEW, ANG_INTERIM, ANG_OLD}

\* between the smallest and the largest of the three constants
C17InRange(a2b) == ANG_NEW <= a2b /\ a2b <= ANG_OLD

\* farther from each constant than the constants are from each other
C17WideMargin(a2b) ==
    \A c \in {"NEW", "OLD", "INTERIM"} : Abs(a2b - ANG_BOHR_KKR(c)) > ANG_OLD - ANG_NEW

C17Holds(row) ==
    /\ row.constants_version \in KkrConstantsVersion
    /\ C17WideMargin(row.ANG_BOHR_KKR) => row.constants_version = "NEITHER"
    /\ (C17FitsNone(row.ANG_BOHR_KKR) /\ C17InRange(row.ANG_BOHR_KKR)) =>
          row.constants_version = "UNDECISIVE"

C17_NeitherAndUndecisive == \A u \in WcIds : df[u].checked => C17Holds(df[u])

(* C16: CifImporter.load_or_convert raises ValueError when the existing    *)
(* structure group contains more than one conversion-settings Dict node,    *)
(* and then no node is created, stored, converted or added to any group.    *)
(* This holds when the CIF group holds at least one CifData node            *)
(* (C16_AmbiguousSettingsRaise); without that condition                     *)
(* (C16_AmbiguousAlwaysRaises) it does not.  last.cifs and last.settings    *)
(* are the numbers of CifData nodes of the CIF group and of Dict nodes of   *)
(* the structure group when the call was made.                              *)
C16Raised == last.outcome = "AmbiguousSettings" /\ ~last.changed

C16_AmbiguousSettingsRaise ==
    (last.op = "load_or_convert" /\ last.settings > 1 /\ last.cifs > 0) => C16Raised

C16_AmbiguousAlwaysRaises ==
    (last.op = "load_or_convert" /\ last.settings > 1) => C16Raised

C16_Witness ==
    /\ last.op = "load_or_convert" /\ last.settings > 1 /\ last.cifs > 0 /\ ~last.dry_run
    /\ C16Raised
    /\ NodesOfKind(store, "cifs/strucs", "StructureData") = {}

(* C19: CifImporter.load_or_convert with dry_run=True leaves the store      *)
(* unchanged: no structure group is created, no conversion-settings node is *)
(* stored or modified, no structure is converted and no group membership    *)
(* changes.                                                                 *)
C19Holds(a, r) ==
    /\ r.st = store
    /\ (a.conversion_settings # "None" /\ r.settings.pk = 0 /\ r.settings # NoSettings) =>
          r.settings.store = a.conversion_settings

C19_DryRunConvertNoChange ==
    \A a \in ConvertRequests : a.dry_run => C19Holds(a, LoadOrConvert(store, a))

\* a dry run was made where the call for real creates the structure group,
\* stores the settings and converts
C19_Witness ==
    /\ last.op = "load_or_convert" /\ last.dry_run /\ last.outcome = "returned"
    /\ last.cifs > 0 /\ ~last.changed
    /\ "cifs/strucs" \notin store.groups
    /\ \E a \in ConvertRequests :
          /\ a.dry_run /\ StructureGroupPath(a) = "cifs/strucs"
          /\ Len(LoadOrConvert(store, [a EXCEPT !.dry_run = FALSE]).st.nodes) > Len(store.nodes)

(* C18: load_or_rescale_structures with dry_run=False rescales exactly     *)
(* those StructureData nodes of the input group that do not already have a  *)
(* rescaled output structure in the output group; running it a second time  *)
(* with the same arguments creates no new structure and leaves the output   *)
(* group's membership unchanged.  This holds when the output group is not   *)
(* the input group (C18_RescaleOnceOtherGroup); for any pair of groups      *)
(* (C18_RescaleOnce) it does not.                                           *)
\* the structures of the input group with no output made from them, with
\* their kinds, in the output group
C18Lacking(st, inp, out) ==
    {x \in Pks(st) :
        /\ <<inp, x>> \in st.members /\ st.nodes[x].kind = "StructureData"
        /\ ~\E o \in Pks(st) :
              /\ <<out, o>> \in st.members /\ st.nodes[o].kind = "StructureData"
              /\ x \in st.nodes[o].attrs.src
              /\ st.nodes[o].attrs.kinds = st.nodes[x].attrs.kinds}

C18New(st, r) == (Len(st.nodes) + 1)..Len(r.nodes)

\* r: the store after the first run on st
C18Exactly(st, inp, out, r) ==
    /\ SubSeq(r.nodes, 1, Len(st.nodes)) = st.nodes
    /\ Cardinality(C18New(st, r)) = Cardinality(C18Lacking(st, inp, out))
    /\ \A x \in C18Lacking(st, inp, out) :
          \E n \in C18New(st, r) :
              /\ r.nodes[n] = StructureNode({x}, st.nodes[x].attrs.kinds)
              /\ <<out, n>> \in r.members
    /\ r.members \ st.members = {<<out, n>> : n \in C18New(st, r)}
    /\ st.members \subseteq r.members

C18Holds(st, inp, out, r) ==
    /\ C18Exactly(st, inp, out, r)
    /\ LoadOrRescaleStructures(r, inp, out, FALSE) = r

C18_RescaleOnceOtherGroup ==
    \A inp \in StructureGroupLabels \cap store.groups, out \in StructureGroupLabels :
        inp # out =>
            C18Holds(store, inp, out, LoadOrRescaleStructures(store, inp, out, FALSE))

C18_RescaleOnce ==
    \A inp \in StructureGroupLabels \cap store.groups, out \in StructureGroupLabels :
        C18Holds(store, inp, out, LoadOrRescaleStructures(store, inp, out, FALSE))

\* a run has rescaled two of the four converted structures into the other
\* group, where the other two had their outputs already, and a second run
\* changes nothing
C18_Witness ==
    /\ last.op = "load_or_rescale_structures" /\ ~last.dry_run /\ last.changed
    /\ last.inp = "cifs/strucs" /\ last.out = "scaled"
    /\ Cardinality(NodesOfKind(store, "cifs/strucs", "StructureData")) = 4
    /\ Cardinality(NodesOfKind(store, "scaled", "StructureData")) = 4
    /\ C18Lacking(store, "cifs/strucs", "scaled") = {}
    /\ LoadOrRescaleStructures(store, "cifs/strucs", "scaled", FALSE) = store

(* C20: load_or_rescale_structures with dry_run=True only reports what it   *)
(* would do and leaves the store unchanged: no group is created and no      *)
(* structure is created or added to a group.                                *)
C20_DryRunRescaleNoChange ==
    (last.op = "load_or_rescale_structures" /\ last.dry_run) => ~last.changed

(* C21: _OptionsConfig.delete_options deletes nothing when dry_run is True, *)
(* and aborts without deleting anything when any supplied node is not a     *)
(* Dict node or is not stored.                                              *)
\* the node lists of the calls, and lists mixing an option with a node
\* that is no Dict or is not stored
C21NodeLists ==
    NodeLists \cup {<<1, pk>> : pk \in {3} \cap Pks(store)}
              \cup {<<pk, 1>> : pk \in {3} \cap Pks(store)}
              \cup {<<0, pk>> : pk \in {1} \cap Pks(store)}

C21Unfit(st, nodes) ==
    \E i \in 1..Len(nodes) : nodes[i] = 0 \/ st.nodes[nodes[i]].kind # "Dict"

C21Holds(nodes, dry_run, r) ==
    /\ dry_run => r.st = store
    /\ C21Unfit(store, nodes) => (r.st = store /\ r.outcome # "deleted")

C21_DryRunOrUnfitDeletesNothing ==
    \A nodes \in C21NodeLists, dry_run \in BOOLEAN :
        C21Holds(nodes, dry_run, DeleteOptions(store, cfg[active], nodes, dry_run))

\* a call for real was aborted, on a config for which a dry run goes through
\* and a call for real with a stored option does delete
C21_Witness ==
    /\ cfg[active].is_initialized
    /\ last.op = "delete_options" /\ ~last.dry_run /\ last.outcome = "aborted" /\ ~last.deleted
    /\ 1 \in Pks(store)
    /\ DeleteOptions(store, cfg[active], <<1>>, TRUE).outcome = "deleted"
    /\ DeleteOptions(store, cfg[active], <<1>>, FALSE).st # store

(* C22: _OptionsConfig.delete_options with dry_run=False deletes only       *)
(* records that are options of this config (members of the config's         *)
(* groups); a supplied stored Dict node that is not an option of the config *)
(* is not deleted.                                                          *)
\* the stored Dict nodes that are members of a group of the config
C22ConfigOptions(st, cf) ==
    {pk \in Pks(st) : st.nodes[pk].kind = "Dict"
                      /\ \E l \in Labels(cf.groups) : <<l, pk>> \in st.members}

C22Holds(st, cf, r) == Pks(st) \ Pks(r.st) \subseteq C22ConfigOptions(st, cf)

C22_DeletesOnlyOwnOptions ==
    cfg[active].is_initialized =>
        \A nodes \in NodeLists :
            C22Holds(store, cfg[active], DeleteOptions(store, cfg[active], nodes, FALSE))

(* C23: group resolution in _OptionsConfig.initialize: if any of the        *)
(* config's default or alternative group labels already exists in the       *)
(* store, the config's final group list is exactly the loaded groups and    *)
(* all unstored temporary groups are dropped; if none exists, all temporary *)
(* groups of the config are created (stored).                               *)
\* last.alt: the alternative_group_names of the call; last.existing: the
\* labels among the config's default and alternative ones that existed in
\* the store when the call was made.  An uninitialized config holds its
\* default groups.
C23Temporary(name, alt) ==
    {DefaultGroups(name)[i] : i \in 1..Len(DefaultGroups(name))} \cup {alt[i] : i \in 1..Len(alt)}

C23Loaded(groups) ==
    /\ Labels(groups) = last.existing
    /\ \A i \in 1..Len(groups) : groups[i].is_stored
    /\ ~last.new_groups

C23Created(groups) ==
    /\ C23Temporary(active, last.alt) \subseteq store.groups
    /\ Labels(groups) = C23Temporary(active, last.alt)
    /\ \A i \in 1..Len(groups) : groups[i].is_stored

C23_GroupResolution ==
    (last.op = "initialize" /\ ~last.was_initialized) =>
        IF last.existing # {} THEN C23Loaded(cfg[active].groups)
        ELSE C23Created(cfg[active].groups)

====
